---- MODULE Spec2Model ----
(***************************************************************************)
(* State-machine model of the Loxone monitor: the connection supervisor    *)
(* (monitor.process / monitor.listen), the framed message codec            *)
(* (LoxoneServer.MessageHeader / MessageBody), the entity model            *)
(* (model.Building and its leaves) and the persistence path                *)
(* (monitor.persist_data), which run as cooperatively scheduled asyncio    *)
(* tasks.  One action is one run of a task between two suspension points.  *)
(***************************************************************************)
EXTENDS Integers, Sequences, FiniteSets, TLC

\* ------------------------------------------------------------------ bounds
\* connection attempts the supervisor may start in one run of the model
MaxAttempts == 2
\* wall clock (unix seconds) at program start; the real clock is far above
\* MAX_AGGREGATION_SECONDS, so lastPersisted = 0 never blocks the first persist
StartTime == 100
\* seconds by which one clock step advances the wall clock
TickSeconds == 30
\* clock steps the model takes
MaxTicks == 2
\* records in one value-state message
MaxBatch == 2

\* ------------------------------------------------------- program constants
MAX_AGGREGATION_SECONDS == 30
BACKOFF_SECONDS == 20
KEEPALIVE_SECONDS == 60
CLEAN_CLOSE == 1000
PREFIX == 3
RESERVED == 0
ESTIMATION_HEADER == 128
RECORD_BYTES == 24

\* download_miniserver.uncompress: the length byte that announces a further
\* length byte, and, as the four bytes struct's '<L' reads them (least
\* significant first), the magic word 0xaabbccee of a compressed entry and the
\* reflected polynomial 0xedb88320 and the mask 0xffffffff of zlib.crc32
MORE == 255
MAGIC == <<238, 204, 187, 170>>
CRC_POLY == <<32, 131, 184, 237>>
CRC_MASK == <<255, 255, 255, 255>>

\* ChangeResponse (enum values of model.ChangeResponse)
NO == 0
LATER == 1
IMMEDIATE == 2
ChangeResponse == {NO, LATER, IMMEDIATE}

None == "None"

\* ------------------------------------------------------------ frame codec
\* MessageHeader.Identifier
Identifier ==
    [b \in 0..7 |->
        CASE b = 0 -> "TEXT"
          [] b = 1 -> "FILE"
          [] b = 2 -> "VALUE_STATES"
          [] b = 3 -> "TEXT_STATES"
          [] b = 4 -> "DAYTIME_STATES"
          [] b = 5 -> "OUT_OF_SERVICE"
          [] b = 6 -> "KEEPALIVE"
          [] b = 7 -> "WEATHER_STATES"]

\* Identifier.convert: the enum member, or None for a byte outside the enum
convert(value) == IF value \in DOMAIN Identifier THEN Identifier[value] ELSE None

\* the 8-byte headers the peer may send (size in bytes of the body announced)
Headers ==
    [prefix : {PREFIX, 2}, identifier : {0, 1, 2, 3, 6, 9},
     info : {0, ESTIMATION_HEADER, 129}, reserved : {RESERVED, 1},
     size : {0, RECORD_BYTES}]

\* MessageHeader.parse on one received header: "error" for a failed assert,
\* "estimation" when parse recurses to read the next header, else the header
ParseOne(h) ==
    IF h.prefix # PREFIX THEN [kind |-> "error", identifier |-> None, size |-> 0]
    ELSE IF convert(h.identifier) = None
        THEN [kind |-> "error", identifier |-> None, size |-> 0]
    ELSE IF h.info = ESTIMATION_HEADER
        THEN [kind |-> "estimation", identifier |-> None, size |-> 0]
    ELSE IF h.reserved # RESERVED
        THEN [kind |-> "error", identifier |-> None, size |-> 0]
    ELSE [kind |-> "header", identifier |-> convert(h.identifier), size |-> h.size]

\* what MessageHeader.parse makes of the headers the peer may send
ParsedHeaders == {ParseOne(h) : h \in Headers}

\* ------------------------------------------------------------ entity model
\* The structure document of the model: room r1 has a heating controller
\* (state tempActual), room r2 a light controller with one switch (state active).
Rooms == <<"r1", "r2">>
Leaves == {"tempActual1", "active2"}
UnknownId == "unregistered"
Ids == Leaves \cup {UnknownId}

\* A second structure document, used where the entity model is exercised on
\* its own: r1 has, besides the heating controller (states tempActual,
\* tempTarget, humidityActual, openWindow), a blind (state position) and a
\* presence detector (state active), so that a leaf of every kind exists.
AllLeaves ==
    Leaves \cup {"tempTarget1", "humidityActual1", "position1", "openWindow1",
                 "presence1"}

\* Room.__init__: the measurement each leaf feeds, and its room
LeafField ==
    [l \in AllLeaves |->
        CASE l = "tempActual1" -> "temperature"
          [] l = "tempTarget1" -> "temperatureTarget"
          [] l = "humidityActual1" -> "humidity"
          [] l = "active2" -> "light"
          [] l = "position1" -> "shading"
          [] l = "openWindow1" -> "ventilation"
          [] l = "presence1" -> "precence"]
LeafRoom ==
    [l \in AllLeaves |-> IF l = "active2" THEN "r2" ELSE "r1"]

\* every BoolValue built with ChangeResponse.IMMEDIATE, openWindow included
\* (variant used to test ChangedUpdateReturnsClass)
FieldChangeBool(f) ==
    IF f \in {"light", "ventilation", "precence"} THEN IMMEDIATE ELSE LATER

\* Room.__init__: the leaf class, the change class and the scale (in tenths)
\* the leaves of measurement f are constructed with
FieldKind(f) ==
    IF f \in {"light", "ventilation", "precence"} THEN "Bool" ELSE "Rounded"
FieldChange(f) == IF f \in {"light", "precence"} THEN IMMEDIATE ELSE LATER
FieldScale(f) ==
    IF FieldKind(f) = "Bool" THEN 0 ELSE IF f = "shading" THEN 10 ELSE 5

LeafKind == [l \in AllLeaves |-> FieldKind(LeafField[l])]
LeafChange == [l \in AllLeaves |-> FieldChange(LeafField[l])]
LeafScale == [l \in AllLeaves |-> FieldScale(LeafField[l])]

\* A leaf value: Python None, a bool, or a float held in tenths
Null == [t |-> "none", v |-> 0]
Bool(b) == [t |-> "bool", v |-> IF b THEN 1 ELSE 0]
Num(n) == [t |-> "num", v |-> n]

\* the doubles a value-state record may carry, in tenths
WireValues == {Num(0), Num(2), Num(3)}

\* round(): Python rounds half to even
PyRound(num, den) ==
    LET q == num \div den
        r == num % den
    IN  IF 2 * r < den THEN q
        ELSE IF 2 * r > den THEN q + 1
        ELSE IF q % 2 = 0 THEN q ELSE q + 1

\* BoolValue.setValue / RoundedValue.setValue: the candidate handed to
\* RawValue.setValue
Candidate(l, v) ==
    IF v = Null THEN Null
    ELSE IF LeafKind[l] = "Bool" THEN Bool(v.v # 0)
    ELSE Num(PyRound(v.v, LeafScale[l]) * LeafScale[l])

\* setValue with the comparison made on the value as received, before it is
\* rounded or coerced (variant used to test RedundantUpdateIsNo)
setValueRaw(vals, l, v) ==
    IF vals[l] = v
    THEN [vals |-> vals, response |-> NO]
    ELSE [vals |-> [vals EXCEPT ![l] = Candidate(l, v)], response |-> LeafChange[l]]

\* RawValue.setValue on leaf l of the leaf-value map vals
setValue(vals, l, v) ==
    IF vals[l] = Candidate(l, v)
    THEN [vals |-> vals, response |-> NO]
    ELSE [vals |-> [vals EXCEPT ![l] = Candidate(l, v)], response |-> LeafChange[l]]

\* Registry.update with an unregistered id answered like a change of the
\* default class (variant used to test UnknownIdIgnored)
updateUnknownLater(vals, id, v) ==
    IF id \in DOMAIN vals THEN setValue(vals, id, v)
    ELSE [vals |-> vals, response |-> LATER]

\* Registry.update: the registry holds the leaves of the document, the keys of
\* vals
update(vals, id, v) ==
    IF id \in DOMAIN vals THEN setValue(vals, id, v)
    ELSE [vals |-> vals, response |-> NO]

\* the batch loop with `building.change = current` outside the comparison:
\* the response of the last update wins (variant used to test MonotoneChange)
UpdateStepAssign(st, rec) ==
    LET r == update(st.vals, rec[1], rec[2])
    IN  [vals |-> r.vals, change |-> r.response]

\* one update of the batch loop of process_updates: building.update(id, value),
\* then building.change is raised when the response is higher.  st holds the
\* leaf values and building.change.
UpdateStep(st, rec) ==
    LET r == update(st.vals, rec[1], rec[2])
    IN  [vals |-> r.vals,
         change |-> IF r.response > st.change THEN r.response ELSE st.change]

\* the loop `for id, value in states.items()` over the parsed dict d
RECURSIVE ApplyBatch(_, _)
ApplyBatch(st, d) ==
    IF d = <<>> THEN st ELSE ApplyBatch(UpdateStep(st, Head(d)), Tail(d))

\* result[uuid] = value on a dict kept as a sequence of <<key, value>> pairs in
\* insertion order: a key already present keeps its place and takes the value
DictSet(d, k, v) ==
    IF \E i \in 1..Len(d) : d[i][1] = k
    THEN [i \in 1..Len(d) |-> IF d[i][1] = k THEN <<k, v>> ELSE d[i]]
    ELSE Append(d, <<k, v>>)

RECURSIVE DictOf(_, _)
DictOf(recs, d) ==
    IF recs = <<>> THEN d
    ELSE DictOf(Tail(recs), DictSet(d, Head(recs)[1], Head(recs)[2]))

\* value-state messages the peer may send: whole 24-byte records followed by
\* tail further bytes (0 for a well-formed message; 16 end inside the UUID of
\* a record, 20 inside its double)
WireValuesOf(id) ==
    IF id = UnknownId THEN {Num(3)}
    ELSE IF LeafKind[id] = "Bool" THEN {Num(0), Num(3)}
    ELSE WireValues
Records == {rec \in Ids \X WireValues : rec[2] \in WireValuesOf(rec[1])}
Messages ==
    [recs : UNION {[1..n -> Records] : n \in 0..MaxBatch}, tail : {0, 16, 20}]

\* parseValueStates stopping in front of a partial record, with the records
\* read so far as its result (variant used to test PartialBodyRejected)
parseValueStatesWhole(msg) == [ok |-> TRUE, states |-> DictOf(msg.recs, <<>>)]

\* MessageBody.parseValueStates: struct.unpack_from raises on the partial record
parseValueStates(msg) ==
    IF msg.tail # 0 THEN [ok |-> FALSE, states |-> <<>>]
    ELSE [ok |-> TRUE, states |-> DictOf(msg.recs, <<>>)]

\* what parseValueStates makes of the messages the peer may send
ParsedMessages == {parseValueStates(msg) : msg \in Messages}

\* ------------------------------------------------------------- aggregates
NonNull(vals, ls) == {l \in ls : vals[l] # Null}

RECURSIVE SumOf(_, _)
SumOf(vals, ls) ==
    IF ls = {} THEN 0
    ELSE LET l == CHOOSE x \in ls : TRUE IN vals[l].v + SumOf(vals, ls \ {l})

\* OrAggregate.getValue reducing the values of all its entities, None
\* included, with any() (variant used to test AggregateNullSafe)
OrAggregateAll(vals, ls) ==
    IF ls = {} THEN Null
    ELSE Bool(\E l \in ls : vals[l].v # 0)

\* OrAggregate.getValue
OrAggregate(vals, ls) ==
    IF NonNull(vals, ls) = {} THEN Null
    ELSE Bool(\E l \in NonNull(vals, ls) : vals[l].v # 0)

\* AndAggregate.getValue
AndAggregate(vals, ls) ==
    IF NonNull(vals, ls) = {} THEN Null
    ELSE Bool(\A l \in NonNull(vals, ls) : vals[l].v # 0)

\* sorted(values): the values of the leaves ls in ascending order
RECURSIVE Sorted(_, _)
Sorted(vals, ls) ==
    IF ls = {} THEN <<>>
    ELSE LET l == CHOOSE x \in ls : \A y \in ls : vals[x].v <= vals[y].v
         IN  <<vals[l].v>> \o Sorted(vals, ls \ {l})

\* MedianAggregate.getValue: statistics.median takes the middle value, or the
\* mean of the two middle values; kept as the exact fraction v / n
MedianAggregate(vals, ls) ==
    IF NonNull(vals, ls) = {} THEN Null
    ELSE LET sorted == Sorted(vals, NonNull(vals, ls))
             n == Len(sorted)
         IN  IF n % 2 = 1
             THEN [t |-> "median", v |-> sorted[(n + 1) \div 2], n |-> 1]
             ELSE [t |-> "median", v |-> sorted[n \div 2] + sorted[n \div 2 + 1], n |-> 2]

\* MeanAggregate.getValue; the mean is kept as the exact fraction v / n
MeanAggregate(vals, ls) ==
    IF NonNull(vals, ls) = {} THEN Null
    ELSE [t |-> "mean", v |-> SumOf(vals, NonNull(vals, ls)),
          n |-> Cardinality(NonNull(vals, ls))]

\* the measurement columns of a row, in the order persist_data lists them
Fields ==
    <<"temperature", "temperatureTarget", "humidity", "light", "shading",
      "valve", "ventilation", "precence">>
LeavesOf(room, field) ==
    {l \in Leaves : LeafRoom[l] = room /\ LeafField[l] = field}

\* Room.__init__: the aggregate kind of each measurement
getValue(vals, room, field) ==
    IF field \in {"light", "ventilation", "precence"}
    THEN OrAggregate(vals, LeavesOf(room, field))
    ELSE MeanAggregate(vals, LeavesOf(room, field))

RoomValues(vals, room) == [i \in 1..Len(Fields) |-> getValue(vals, room, Fields[i])]

\* the rows of a persist whose test of a room is any(values): a room whose
\* values are all None, False or 0 gets no row (variant used to test
\* PersistRows)
RowsOfTruthy(vals, time) ==
    {[time |-> time, id |-> Rooms[i], values |-> RoomValues(vals, Rooms[i])] :
        i \in {j \in 1..Len(Rooms) :
                 \E k \in 1..Len(Fields) : RoomValues(vals, Rooms[j])[k].v # 0}}

\* the rows one persist inserts: one per room with a value that is not None
RowsOf(vals, time) ==
    {[time |-> time, id |-> Rooms[i], values |-> RoomValues(vals, Rooms[i])] :
        i \in {j \in 1..Len(Rooms) :
                 \E k \in 1..Len(Fields) : RoomValues(vals, Rooms[j])[k] # Null}}

\* INSERT ... ON CONFLICT (time, id) DO NOTHING, for every row of the transaction
InsertAll(table, rows) ==
    table \cup {r \in rows : ~\E s \in table : s.time = r.time /\ s.id = r.id}

\* The rows of table a later INSERT can still conflict with: those of the
\* times in live.  The clock never goes back, so a row older than the clock and
\* than the `now` of every running persist_data is never looked at again, and
\* the model drops it.
Live(table, live) == {r \in table : r.time.second \in live}

\* ------------------------------------------------------------------ state
VARIABLES
    pc,             \* where process/listen stands: "connect", "send", "header",
                    \* "body", "wait" (asyncio.wait), "backoff", "stopped"
    hs,             \* the handshake step 1..5 listen is at (0 outside)
    attempts,       \* calls of listen made so far
    sock,           \* the websocket: "none", "open", "closed"
    sent,           \* the commands sent on the socket in this attempt
    rx,             \* the frame received last in this attempt's handshake
    exc,            \* the exception that ended the last attempt
    wake,           \* when the backoff sleep of process ends
    ts,             \* status of each task of the attempt
    texc,           \* the exception a failed task ended with
    kwake,          \* when the sleep of keepalive ends
    ipc,            \* where process_updates stands
    ibatch,         \* the parsed states process_updates waits to apply
    swake,          \* when the sleep of scheduled_persist ends
    ppc,            \* where persist_data stands, per calling task
    pnow,           \* the `now` persist_data read, per calling task
    lock,           \* the holder of DATALOCK, or "none"
    txRows,         \* the rows of the open transaction
    change,         \* building.change
    lastPersisted,  \* building.lastPersisted
    value,          \* the value of every leaf of the building
    store,          \* the committed rows of table room (those an INSERT can still meet)
    now,            \* the wall clock, unix seconds
    uri,            \* the --db-uri argument: "none" or a database uri
    \* a call of MessageHeader.parse taken on its own
    received,       \* the headers websocket.recv() gave to the call, in order
    returned,       \* what the call returned or raised (NoReturn while it runs)
    \* a call of uncompress taken on its own: its locals
    uheader,        \* header: the magic word of the entry
    uncompressedSize,   \* the declared length of the output
    checksum,       \* the declared CRC-32 of the output
    data,           \* the compressed bytes
    index,          \* the read position in data (0-based, as in the source)
    result,         \* the output bytes
    byte,           \* the low nibble of the packet's token
    bytesBack,      \* the offset of the packet's match
    bytesBackCopied,    \* the bytes of the match still to copy
    upc,            \* where uncompress stands: "idle", "open", "packet",
                    \* "copy", "verify", "done"
    uret,           \* what uncompress returned or raised (NoReturn while it runs)
    \* a construction of Building taken on its own
    registry,       \* Registry.registry: the leaf each registered id is bound to
    constructed,    \* how far Building.__init__ is ("none", "building", "built"
                    \* or "ValueError") and the id of each leaf it has made
    \* process_updates taken on its own, with what the peer has sent
    wire,           \* the messages sent on the socket and not yet received
    lpc,            \* where process_updates stands: "idle", "header", "body",
                    \* "skip", "failed"
    lheader,        \* header: what MessageHeader.parse returned in this iteration
    lrecv,          \* the messages this iteration received after its header
    lgraph,         \* the building: the value of every leaf and building.change
    \* a call of _zero_pad taken on its own
    message,        \* the argument of _zero_pad
    padded          \* what _zero_pad returned (NoReturn before it has)

supVars == <<pc, hs, attempts, sock, sent, rx, exc, wake>>
taskVars == <<ts, texc, kwake, ipc, ibatch, swake>>
persistVars == <<ppc, pnow, lock, txRows>>
buildingVars == <<change, lastPersisted, value>>
envVars == <<store, now, uri>>
monitorVars == <<supVars, taskVars, persistVars, buildingVars, envVars>>
codecVars == <<received, returned>>
uncVars ==
    <<uheader, uncompressedSize, checksum, data, index, result, byte, bytesBack,
      bytesBackCopied, upc, uret>>
regVars == <<registry, constructed>>
loopVars == <<wire, lpc, lheader, lrecv, lgraph>>
padVars == <<message, padded>>
pureVars == <<codecVars, uncVars, regVars, loopVars, padVars>>
vars == <<monitorVars, pureVars>>

Tasks == {"keepalive", "ingest", "snapshot"}
Persisters == {"ingest", "snapshot"}

\* exceptions: websockets.ConnectionClosed carries the close code
NoExc == [type |-> "none", code |-> 0]
Closed(c) == [type |-> "ConnectionClosed", code |-> c]
Raised(t) == [type |-> t, code |-> 0]
CloseCodes == {CLEAN_CLOSE, 1006}

\* datetime values: whole seconds and microseconds
DateTime(sec, us) == [second |-> sec, microsecond |-> us]
Micros == {0, 999999}
\* now.timestamp() then int(): the whole seconds
IntTimestamp(dt) == dt.second
\* datetime.datetime.now() without the replace: the microseconds stay
\* (variant used to test PersistReset)
KeepMicrosecond(dt) == dt
\* datetime.datetime.now().replace(microsecond=0)
ReplaceMicrosecond(dt) == [dt EXCEPT !.microsecond = 0]
NoTime == DateTime(0, 0)

\* the commands of the handshake, in the order listen sends them
Commands ==
    <<"jdev/sys/keyexchange", "jdev/sys/getkey2", "jdev/sys/enc",
      "data/LoxAPP3.json", "jdev/sps/enablebinstatusupdate">>
\* TEXT asserted at every step, the structure file included (variant used to
\* test IdentifierMismatchAborts)
ExpectedText(n) == "TEXT"
\* the identifier listen asserts on the header of each response
Expected(n) == IF n = 4 THEN "FILE" ELSE "TEXT"

\* response bodies: whether LL.control is the one listen compares with, the
\* key the code is under and its value, and whether LL.value (for the
\* structure file: the document) is as listen needs it
Bodies ==
    [control : BOOLEAN, key : {"code", "Code"}, code : {"200", "401"},
     value : BOOLEAN]
NoBody == [control |-> FALSE, key |-> "-", code |-> "-", value |-> FALSE]
RxNone == [step |-> 0, identifier |-> None, body |-> NoBody]

\* the checks without the comparison of LL.Code at step 5 (variant used to
\* test HandshakeOrder)
AcceptBodyNoCode(n, m) ==
    CASE n = 1 -> TRUE
      [] n = 2 -> m.control /\ m.key = "code" /\ m.code = "200" /\ m.value
      [] n = 3 -> TRUE
      [] n = 4 -> m.value
      [] n = 5 -> m.control /\ m.value

\* the checks listen makes on the parsed body of step n before it goes on
AcceptBody(n, m) ==
    CASE n = 1 -> TRUE
      [] n = 2 -> m.control /\ m.key = "code" /\ m.code = "200" /\ m.value
      [] n = 3 -> TRUE
      [] n = 4 -> m.value
      [] n = 5 -> m.control /\ m.value /\ m.key = "Code" /\ m.code = "200"

\* the building of the attempt before, kept as it was left (variant used to
\* test FreshPerAttempt)
CarriedBuilding == [change |-> change, lastPersisted |-> lastPersisted, value |-> value]

\* Building.__init__: no pending change, never persisted, every leaf None
FreshBuilding == [change |-> NO, lastPersisted |-> 0, value |-> [l \in Leaves |-> Null]]
\* no building exists (listen has not built one, or has returned)
NoBuilding == [change |-> NO, lastPersisted |-> -1, value |-> [l \in Leaves |-> Null]]

\* no call of MessageHeader.parse and none of uncompress is followed
NoReturn == [type |-> "none"]
NotParsing == received = <<>> /\ returned = NoReturn
NotUncompressing ==
    /\ uheader = <<0, 0, 0, 0>> /\ uncompressedSize = 0
    /\ checksum = <<0, 0, 0, 0>>
    /\ data = <<>> /\ index = 0 /\ result = <<>>
    /\ byte = 0 /\ bytesBack = 0 /\ bytesBackCopied = 0
    /\ upc = "idle" /\ uret = NoReturn
NoRegistry == [id \in {} |-> 0]
NotConstructing ==
    registry = NoRegistry /\ constructed = [status |-> "none", leaves |-> <<>>]

\* process_updates is not running and nothing has been sent
NoHeader == [identifier |-> None, size |-> 0]
NotLooping ==
    /\ wire = <<>> /\ lpc = "idle" /\ lheader = NoHeader /\ lrecv = <<>>
    /\ lgraph = [vals |-> NoBuilding.value, change |-> NoBuilding.change]
\* _zero_pad is not called
NotPadding == message = <<>> /\ padded = NoReturn

TypeOK ==
    /\ pc \in {"connect", "send", "header", "body", "wait", "backoff", "stopped"}
    /\ lpc \in {"idle", "header", "body", "skip", "failed"}
    /\ padded.type \in {"none", "bytes"}
    /\ hs \in 0..5
    /\ attempts \in 0..MaxAttempts
    /\ sock \in {"none", "open", "closed"}
    /\ ts \in [Tasks -> {"none", "running", "failed", "cancelled"}]
    /\ ipc \in {"header", "body", "skip", "lock", "applied", "persist"}
    /\ ppc \in [Persisters -> {"idle", "lock", "connect", "tx", "commit", "close"}]
    /\ lock \in Persisters \cup {"none"}
    /\ change \in ChangeResponse
    /\ uri \in {"none", "postgresql"}

Init ==
    /\ pc = "connect" /\ hs = 0 /\ attempts = 0 /\ sock = "none"
    /\ sent = <<>> /\ rx = RxNone /\ exc = NoExc /\ wake = 0
    /\ ts = [t \in Tasks |-> "none"] /\ texc = [t \in Tasks |-> NoExc]
    /\ kwake = 0 /\ ipc = "header" /\ ibatch = <<>> /\ swake = 0
    /\ ppc = [p \in Persisters |-> "idle"] /\ pnow = [p \in Persisters |-> NoTime]
    /\ lock = "none" /\ txRows = {}
    /\ change = NoBuilding.change /\ lastPersisted = NoBuilding.lastPersisted
    /\ value = NoBuilding.value
    /\ store = {} /\ now = StartTime
    /\ uri \in {"none", "postgresql"}
    /\ NotParsing /\ NotUncompressing /\ NotConstructing
    /\ NotLooping /\ NotPadding

\* the `now` of every persist_data that is running
LiveTimes(at, read) == {read[q].second : q \in {p \in Persisters : at[p] # "idle"}}

\* process_updates runs from applying a batch to its call of persist_data
\* without a suspension point: no other task runs in between
Yielded == ipc # "applied"

\* DATALOCK is an asyncio.Lock: it wakes its waiters in the order they came,
\* and an acquire that finds a waiter queues behind it even when the lock is
\* not held.  Handover is the lock released and its waiter not yet run; the
\* waiter is the next to hold the lock.
Handover ==
    lock = "none" /\ (ipc = "lock" \/ \E p \in Persisters : ppc[p] = "lock")

\* ------------------------------------------------------------- supervisor
\* listen's except clause: a ConnectionClosed with code 1000 makes listen
\* return, every other exception leaves listen
ListenOutcome(e) ==
    IF e.type = "ConnectionClosed" /\ e.code = CLEAN_CLOSE THEN "return" ELSE "raise"

\* process without its loop: it ends when listen returns (variant used to
\* test CleanCloseRetries)
ProcessOnce(outcome) == "stopped"

\* process: after listen returns it sleeps and loops; an exception of listen
\* is caught nowhere and ends process
ProcessAfter(outcome) == IF outcome = "return" THEN "backoff" ELSE "stopped"

\* the attempt ends with exception e raised inside `async with websockets.connect`;
\* listen's locals, the building among them, are gone
Leave(e) ==
    /\ exc' = e
    /\ change' = NoBuilding.change
    /\ lastPersisted' = NoBuilding.lastPersisted
    /\ value' = NoBuilding.value
    /\ sock' = "closed"
    /\ pc' = ProcessAfter(ListenOutcome(e))
    /\ wake' = IF ProcessAfter(ListenOutcome(e)) = "backoff"
               THEN now + BACKOFF_SECONDS ELSE wake
    /\ hs' = 0

\* listen steps 1-3: REST discovery and the websocket connect succeed
ConnectOk ==
    /\ Yielded /\ pc = "connect" /\ attempts < MaxAttempts
    /\ attempts' = attempts + 1
    /\ sock' = "open" /\ pc' = "send" /\ hs' = 1
    /\ sent' = <<>> /\ rx' = RxNone /\ exc' = NoExc
    /\ ts' = [t \in Tasks |-> "none"] /\ texc' = [t \in Tasks |-> NoExc]
    /\ UNCHANGED <<wake, kwake, ipc, ibatch, swake>>
    /\ UNCHANGED <<persistVars, buildingVars, envVars>>
    /\ UNCHANGED pureVars

\* get_info / get_public_key assert or the connect fails: no ConnectionClosed
ConnectFail ==
    /\ Yielded /\ pc = "connect" /\ attempts < MaxAttempts
    /\ attempts' = attempts + 1
    /\ exc' = Raised("ConnectError")
    /\ pc' = ProcessAfter(ListenOutcome(Raised("ConnectError")))
    /\ wake' = IF pc' = "backoff" THEN now + BACKOFF_SECONDS ELSE wake
    /\ UNCHANGED <<hs, sock, sent, rx>>
    /\ UNCHANGED <<taskVars, persistVars, buildingVars, envVars>>
    /\ UNCHANGED pureVars

\* sendMessage of the command of step hs
Send ==
    /\ Yielded /\ pc = "send"
    /\ sent' = Append(sent, Commands[hs])
    /\ pc' = "header"
    /\ UNCHANGED <<hs, attempts, sock, rx, exc, wake>>
    /\ UNCHANGED <<taskVars, persistVars, buildingVars, envVars>>
    /\ UNCHANGED pureVars

\* the socket closes under a send or recv of the handshake
HandshakeClosed ==
    /\ Yielded /\ pc \in {"send", "header", "body"}
    /\ \E c \in CloseCodes : Leave(Closed(c))
    /\ UNCHANGED <<attempts, sent, rx>>
    /\ UNCHANGED <<taskVars, persistVars, envVars>>
    /\ UNCHANGED pureVars

\* MessageHeader.parse and the assert on the identifier
RecvHeader ==
    /\ Yielded /\ pc = "header"
    /\ \E r \in ParsedHeaders :
        CASE r.kind = "estimation" -> UNCHANGED <<supVars, buildingVars>>
          [] r.kind = "error" ->
                /\ Leave(Raised("AssertionError"))
                /\ UNCHANGED <<attempts, sent, rx>>
          [] r.kind = "header" ->
                IF r.identifier # Expected(hs)
                THEN /\ Leave(Raised("AssertionError"))
                     /\ rx' = [step |-> hs, identifier |-> r.identifier, body |-> NoBody]
                     /\ UNCHANGED <<attempts, sent>>
                ELSE /\ rx' = [step |-> hs, identifier |-> r.identifier, body |-> NoBody]
                     /\ pc' = "body"
                     /\ UNCHANGED <<hs, attempts, sock, sent, exc, wake, buildingVars>>
    /\ UNCHANGED <<taskVars, persistVars, envVars>>
    /\ UNCHANGED pureVars

\* parseJsonMessage raises on a body that is no JSON, or a check of listen on
\* the parsed body fails
RecvBodyReject ==
    /\ Yielded /\ pc = "body"
    /\ \/ /\ Leave(Raised("JSONDecodeError"))
          /\ UNCHANGED rx
       \/ \E m \in Bodies :
            /\ ~AcceptBody(hs, m)
            /\ rx' = [rx EXCEPT !.body = m]
            /\ Leave(Raised("AssertionError"))
    /\ UNCHANGED <<attempts, sent>>
    /\ UNCHANGED <<taskVars, persistVars, envVars>>
    /\ UNCHANGED pureVars

\* the response of step 1, 2 or 3 passes the checks: on to the next command
RecvBodyNext ==
    /\ Yielded /\ pc = "body" /\ hs \in {1, 2, 3}
    /\ \E m \in Bodies :
        /\ AcceptBody(hs, m)
        /\ rx' = [rx EXCEPT !.body = m]
    /\ pc' = "send" /\ hs' = hs + 1
    /\ UNCHANGED <<attempts, sock, sent, exc, wake>>
    /\ UNCHANGED <<taskVars, persistVars, buildingVars, envVars>>
    /\ UNCHANGED pureVars

\* step 4: Building(message) builds a fresh entity graph; the backup of the
\* configuration (download_latest_config, decode) then succeeds or raises
RecvStructure ==
    /\ Yielded /\ pc = "body" /\ hs = 4
    /\ \E m \in Bodies :
        /\ AcceptBody(hs, m)
        /\ rx' = [rx EXCEPT !.body = m]
    /\ \/ /\ pc' = "send" /\ hs' = 5
          /\ change' = FreshBuilding.change
          /\ lastPersisted' = FreshBuilding.lastPersisted
          /\ value' = FreshBuilding.value
          /\ UNCHANGED <<sock, exc, wake>>
       \/ Leave(Raised("BackupError"))
    /\ UNCHANGED <<attempts, sent>>
    /\ UNCHANGED <<taskVars, persistVars, envVars>>
    /\ UNCHANGED pureVars

\* step 5 passes: the three tasks are created and listen waits for them
RecvSubscribed ==
    /\ Yielded /\ pc = "body" /\ hs = 5
    /\ \E m \in Bodies :
        /\ AcceptBody(hs, m)
        /\ rx' = [rx EXCEPT !.body = m]
    /\ pc' = "wait"
    /\ ts' = [t \in Tasks |-> "running"]
    /\ kwake' = now + KEEPALIVE_SECONDS
    /\ swake' = now + MAX_AGGREGATION_SECONDS
    /\ ipc' = "header" /\ ibatch' = <<>>
    /\ ppc' = [p \in Persisters |-> "idle"] /\ pnow' = [p \in Persisters |-> NoTime]
    /\ UNCHANGED <<hs, attempts, sock, sent, exc, wake, texc, lock, txRows>>
    /\ UNCHANGED <<buildingVars, envVars>>
    /\ UNCHANGED pureVars

\* the pending tasks left as they are (variant used to test TasksCancelled)
CancelNone(status) == status

\* task.cancel() on the pending tasks
CancelPending(status) ==
    [t \in Tasks |-> IF status[t] = "running" THEN "cancelled" ELSE status[t]]

\* asyncio.wait returns once a task has raised; the pending tasks are
\* cancelled and the exception of a done task is raised.  A cancelled task
\* gets CancelledError at its suspension point and runs no further statement
\* of its loop: an open transaction is rolled back and DATALOCK released.
WaitReturn ==
    /\ Yielded /\ pc = "wait"
    /\ \E t \in Tasks :
        /\ ts[t] = "failed"
        /\ Leave(texc[t])
    /\ ts' = CancelPending(ts)
    /\ ppc' = [p \in Persisters |-> "idle"]
    /\ pnow' = [p \in Persisters |-> NoTime]
    /\ lock' = "none" /\ txRows' = {}
    /\ ipc' = "header" /\ ibatch' = <<>>
    /\ kwake' = 0 /\ swake' = 0
    /\ store' = Live(store, {now})
    /\ UNCHANGED <<attempts, sent, rx, texc, now, uri>>
    /\ UNCHANGED pureVars

\* process: the sleep of 20 seconds is over, the loop calls listen again
BackoffDone ==
    /\ Yielded /\ pc = "backoff" /\ now >= wake
    /\ pc' = "connect"
    /\ UNCHANGED <<hs, attempts, sock, sent, rx, exc, wake>>
    /\ UNCHANGED <<taskVars, persistVars, buildingVars, envVars>>
    /\ UNCHANGED pureVars

\* a task ends with exception e; what it held is released on the way out
FailTask(t, e) ==
    /\ ts' = [ts EXCEPT ![t] = "failed"]
    /\ texc' = [texc EXCEPT ![t] = e]

\* -------------------------------------------------------------- keepalive
\* the sleep is over and sendKeepAlive goes through
Keepalive ==
    /\ Yielded /\ ts["keepalive"] = "running" /\ now >= kwake
    /\ kwake' = now + KEEPALIVE_SECONDS
    /\ UNCHANGED <<ts, texc, ipc, ibatch, swake>>
    /\ UNCHANGED <<supVars, persistVars, buildingVars, envVars>>
    /\ UNCHANGED pureVars

\* sendKeepAlive raises ConnectionClosed
KeepaliveFail ==
    /\ Yielded /\ ts["keepalive"] = "running" /\ now >= kwake
    /\ \E c \in CloseCodes : FailTask("keepalive", Closed(c))
    /\ kwake' = 0
    /\ UNCHANGED <<ipc, ibatch, swake>>
    /\ UNCHANGED <<supVars, persistVars, buildingVars, envVars>>
    /\ UNCHANGED pureVars

\* ---------------------------------------------------------- persist_data
\* persist_data without its guard on ChangeResponse.NO (variant used to test
\* ResetOnlyByPersist)
PersistAlways(chg, last, unix, u) ==
    IF chg # IMMEDIATE /\ (unix - last) < MAX_AGGREGATION_SECONDS THEN "skip"
    ELSE IF u = "none" THEN "reset"
    ELSE "store"

\* persist_data with the aggregation window applied to every change class
\* (variant used to test ImmediatePersist)
PersistWindowAll(chg, last, unix, u) ==
    IF chg = NO THEN "skip"
    ELSE IF (unix - last) < MAX_AGGREGATION_SECONDS THEN "skip"
    ELSE IF u = "none" THEN "reset"
    ELSE "store"

\* persist_data without the aggregation window (variant used to test
\* TickPersists and LaterWindow)
PersistNoWindow(chg, last, unix, u) ==
    IF chg = NO THEN "skip"
    ELSE IF u = "none" THEN "reset"
    ELSE "store"

\* persist_data that persists IMMEDIATE changes only: the window test taken
\* as always true (variant used to test PendingPersisted)
PersistImmediateOnly(chg, last, unix, u) ==
    IF chg # IMMEDIATE THEN "skip"
    ELSE IF u = "none" THEN "reset"
    ELSE "store"

\* the guards of persist_data under DATALOCK: "skip" returns with nothing done,
\* "reset" is the branch of uri == 'none', "store" goes on to asyncpg.connect
PersistDecision(chg, last, unix, u) ==
    IF chg = NO THEN "skip"
    ELSE IF chg # IMMEDIATE /\ (unix - last) < MAX_AGGREGATION_SECONDS THEN "skip"
    ELSE IF u = "none" THEN "reset"
    ELSE "store"

\* persist_data returns to its caller: process_updates reads the next header,
\* scheduled_persist starts its next sleep
Returned(p) ==
    IF p = "ingest"
    THEN ipc' = "header" /\ UNCHANGED swake
    ELSE swake' = now + MAX_AGGREGATION_SECONDS /\ UNCHANGED ipc

\* persist_data from the acquisition of DATALOCK to its first await, with dt
\* the `now` it read when it was called
PersistLocked(p, dt) ==
    LET unix == IntTimestamp(dt)
        d == PersistDecision(change, lastPersisted, unix, uri)
    IN  CASE d = "skip" ->
                /\ ppc' = [ppc EXCEPT ![p] = "idle"]
                /\ pnow' = [pnow EXCEPT ![p] = NoTime]
                /\ Returned(p)
                /\ UNCHANGED <<lock, buildingVars>>
          [] d = "reset" ->
                /\ lastPersisted' = unix /\ change' = NO
                /\ ppc' = [ppc EXCEPT ![p] = "idle"]
                /\ pnow' = [pnow EXCEPT ![p] = NoTime]
                /\ Returned(p)
                /\ UNCHANGED <<lock, value>>
          [] d = "store" ->
                /\ ppc' = [ppc EXCEPT ![p] = "connect"]
                /\ pnow' = [pnow EXCEPT ![p] = dt]
                /\ lock' = p
                /\ ipc' = IF p = "ingest" THEN "persist" ELSE ipc
                /\ UNCHANGED <<swake, buildingVars>>

\* the call of persist_data: it reads the clock, then takes DATALOCK or waits
PersistCall(p) ==
    \E us \in Micros :
        LET dt == ReplaceMicrosecond(DateTime(now, us)) IN
        IF lock = "none"
        THEN PersistLocked(p, dt)
        ELSE    /\ ppc' = [ppc EXCEPT ![p] = "lock"]
                /\ pnow' = [pnow EXCEPT ![p] = dt]
                /\ ipc' = IF p = "ingest" THEN "persist" ELSE ipc
                /\ UNCHANGED <<lock, swake, buildingVars>>

\* the waiting persist_data gets DATALOCK
PersistAcquire(p) ==
    /\ Yielded /\ ts[p] = "running" /\ ppc[p] = "lock" /\ lock = "none"
    /\ PersistLocked(p, pnow[p])
    /\ UNCHANGED <<ts, texc, kwake, ibatch, txRows>>
    /\ UNCHANGED <<supVars, envVars>>
    /\ UNCHANGED pureVars

\* asyncpg.connect returns and the transaction begins
PersistConnect(p) ==
    /\ Yielded /\ ts[p] = "running" /\ ppc[p] = "connect"
    /\ ppc' = [ppc EXCEPT ![p] = "tx"]
    /\ UNCHANGED <<pnow, lock, txRows>>
    /\ UNCHANGED <<supVars, taskVars, buildingVars, envVars>>
    /\ UNCHANGED pureVars

\* the INSERTs of the rooms are executed in the transaction
PersistInsert(p) ==
    /\ Yielded /\ ts[p] = "running" /\ ppc[p] = "tx"
    /\ txRows' = RowsOf(value, pnow[p])
    /\ ppc' = [ppc EXCEPT ![p] = "commit"]
    /\ UNCHANGED <<pnow, lock>>
    /\ UNCHANGED <<supVars, taskVars, buildingVars, envVars>>
    /\ UNCHANGED pureVars

\* the transaction commits
PersistCommit(p) ==
    /\ Yielded /\ ts[p] = "running" /\ ppc[p] = "commit"
    /\ store' = InsertAll(store, txRows)
    /\ ppc' = [ppc EXCEPT ![p] = "close"]
    /\ UNCHANGED <<pnow, lock, txRows, now, uri>>
    /\ UNCHANGED <<supVars, taskVars, buildingVars>>
    /\ UNCHANGED pureVars

\* connection.close() returns; lastPersisted and change are set and
\* DATALOCK is released
PersistClose(p) ==
    /\ Yielded /\ ts[p] = "running" /\ ppc[p] = "close"
    /\ lastPersisted' = IntTimestamp(pnow[p]) /\ change' = NO
    /\ ppc' = [ppc EXCEPT ![p] = "idle"]
    /\ lock' = "none" /\ txRows' = {}
    /\ pnow' = [pnow EXCEPT ![p] = NoTime]
    /\ Returned(p)
    /\ store' = Live(store, {now} \cup LiveTimes(ppc', pnow'))
    /\ UNCHANGED <<ts, texc, kwake, ibatch, value>>
    /\ UNCHANGED <<supVars, now, uri>>
    /\ UNCHANGED pureVars

\* persist_data with the two assignments inside its finally block: a failed
\* attempt resets the building as well (variant used to test
\* FailedPersistKeepsChange)
PersistFailReset(p) ==
    /\ Yielded /\ ts[p] = "running"
    /\ ppc[p] \in {"connect", "tx", "commit", "close"}
    /\ FailTask(p, Raised("StoreError"))
    /\ lastPersisted' = IntTimestamp(pnow[p]) /\ change' = NO
    /\ ppc' = [ppc EXCEPT ![p] = "idle"]
    /\ lock' = "none" /\ txRows' = {}
    /\ ipc' = IF p = "ingest" THEN "header" ELSE ipc
    /\ pnow' = [pnow EXCEPT ![p] = NoTime]
    /\ swake' = IF p = "snapshot" THEN 0 ELSE swake
    /\ store' = Live(store, {now} \cup LiveTimes(ppc', pnow'))
    /\ UNCHANGED <<kwake, ibatch, value>>
    /\ UNCHANGED <<supVars, now, uri>>
    /\ UNCHANGED pureVars

\* asyncpg.connect, a statement, the commit or the close raises: nothing in
\* persist_data or its callers catches it, so the calling task ends with it
PersistFail(p) ==
    /\ Yielded /\ ts[p] = "running"
    /\ ppc[p] \in {"connect", "tx", "commit", "close"}
    /\ FailTask(p, Raised("StoreError"))
    /\ ppc' = [ppc EXCEPT ![p] = "idle"]
    /\ lock' = "none" /\ txRows' = {}
    /\ ipc' = IF p = "ingest" THEN "header" ELSE ipc
    /\ pnow' = [pnow EXCEPT ![p] = NoTime]
    /\ swake' = IF p = "snapshot" THEN 0 ELSE swake
    /\ store' = Live(store, {now} \cup LiveTimes(ppc', pnow'))
    /\ UNCHANGED <<kwake, ibatch>>
    /\ UNCHANGED <<supVars, buildingVars, now, uri>>
    /\ UNCHANGED pureVars

\* ------------------------------------------------------- process_updates
\* what process_updates does after a header: read the next header, parse a
\* value-state body, or receive and drop a body
IngestDispatch(header) ==
    IF header.identifier = "KEEPALIVE" THEN "header"
    ELSE IF header.size = 0 THEN "header"
    ELSE IF header.identifier = "VALUE_STATES" THEN "body"
    ELSE "skip"

IngestHeader ==
    /\ Yielded /\ ts["ingest"] = "running" /\ ipc = "header"
    /\ \E r \in ParsedHeaders :
        CASE r.kind = "estimation" -> UNCHANGED <<ts, texc, ipc>>
          [] r.kind = "error" ->
                /\ FailTask("ingest", Raised("AssertionError"))
                /\ UNCHANGED ipc
          [] r.kind = "header" ->
                /\ ipc' = IngestDispatch(r)
                /\ UNCHANGED <<ts, texc>>
    /\ UNCHANGED <<kwake, ibatch, swake>>
    /\ UNCHANGED <<supVars, persistVars, buildingVars, envVars>>
    /\ UNCHANGED pureVars

\* websocket.recv() raises ConnectionClosed
IngestClosed ==
    /\ Yielded /\ ts["ingest"] = "running" /\ ipc \in {"header", "body", "skip"}
    /\ \E c \in CloseCodes : FailTask("ingest", Closed(c))
    /\ ipc' = "header"
    /\ UNCHANGED <<kwake, ibatch, swake>>
    /\ UNCHANGED <<supVars, persistVars, buildingVars, envVars>>
    /\ UNCHANGED pureVars

\* the body of an unsupported message is received and dropped
IngestSkip ==
    /\ Yielded /\ ts["ingest"] = "running" /\ ipc = "skip"
    /\ ipc' = "header"
    /\ UNCHANGED <<ts, texc, kwake, ibatch, swake>>
    /\ UNCHANGED <<supVars, persistVars, buildingVars, envVars>>
    /\ UNCHANGED pureVars

\* the batch loop outside `async with DATALOCK`: it runs whoever holds the
\* lock (variant used to test NoInterleaving)
BatchNoLock(l) == TRUE

\* `async with DATALOCK` of process_updates goes through when nobody holds
\* the lock l
BatchLockFree(l) == l = "none"

\* the loop over the parsed states under DATALOCK
Apply(d) ==
    LET st == ApplyBatch([vals |-> value, change |-> change], d) IN
    /\ value' = st.vals /\ change' = st.change
    /\ ipc' = "applied" /\ ibatch' = <<>>
    /\ UNCHANGED lastPersisted

\* parseValueStates, then the batch is applied if DATALOCK is free
IngestBody ==
    /\ Yielded /\ ts["ingest"] = "running" /\ ipc = "body"
    /\ ~Handover
    /\ \E r \in ParsedMessages :
        IF ~r.ok
        THEN /\ FailTask("ingest", Raised("struct.error"))
             /\ ipc' = "header"
             /\ UNCHANGED <<ibatch, buildingVars>>
        ELSE IF BatchLockFree(lock)
        THEN Apply(r.states) /\ UNCHANGED <<ts, texc>>
        ELSE /\ ipc' = "lock" /\ ibatch' = r.states
             /\ UNCHANGED <<ts, texc, buildingVars>>
    /\ UNCHANGED <<kwake, swake>>
    /\ UNCHANGED <<supVars, persistVars, envVars>>
    /\ UNCHANGED pureVars

\* DATALOCK is released to the waiting process_updates
IngestLocked ==
    /\ Yielded /\ ts["ingest"] = "running" /\ ipc = "lock"
    /\ BatchLockFree(lock)
    /\ Apply(ibatch)
    /\ UNCHANGED <<ts, texc, kwake, swake>>
    /\ UNCHANGED <<supVars, persistVars, envVars>>
    /\ UNCHANGED pureVars

\* the test with >= in place of >: a LATER change calls persist_data as well
\* (variant used to test LaterBatchNoPersist and SharedStateWriters)
PersistTriggerAny(chg) == chg >= LATER

\* the test of process_updates after a batch
PersistTrigger(chg) == chg > LATER

\* after the batch: persist_data is called if building.change is above LATER
IngestAfterBatch ==
    /\ ts["ingest"] = "running" /\ ipc = "applied"
    /\ IF PersistTrigger(change)
       THEN PersistCall("ingest")
       ELSE /\ ipc' = "header"
            /\ UNCHANGED <<swake, ppc, pnow, lock, buildingVars>>
    /\ UNCHANGED <<ts, texc, kwake, ibatch, txRows>>
    /\ UNCHANGED <<supVars, envVars>>
    /\ UNCHANGED pureVars

\* ------------------------------------------------------ scheduled_persist
\* the sleep of MAX_AGGREGATION_SECONDS is over: persist_data is called
SnapshotTick ==
    /\ Yielded /\ ts["snapshot"] = "running" /\ ppc["snapshot"] = "idle"
    /\ now >= swake /\ ~Handover
    /\ PersistCall("snapshot")
    /\ UNCHANGED <<ts, texc, kwake, ibatch, txRows>>
    /\ UNCHANGED <<supVars, envVars>>
    /\ UNCHANGED pureVars

\* ------------------------------------------------------------------ clock
Tick ==
    /\ Yielded /\ pc # "stopped"
    /\ \A t \in Tasks : ts[t] # "failed" \/ pc # "wait"
    /\ now < StartTime + MaxTicks * TickSeconds
    /\ now' = now + TickSeconds
    /\ store' = Live(store, {now'} \cup LiveTimes(ppc, pnow))
    /\ UNCHANGED uri
    /\ UNCHANGED <<supVars, taskVars, persistVars, buildingVars>>
    /\ UNCHANGED pureVars

Next ==
    \/ ConnectOk \/ ConnectFail \/ Send \/ HandshakeClosed \/ RecvHeader
    \/ RecvBodyReject \/ RecvBodyNext \/ RecvStructure \/ RecvSubscribed
    \/ WaitReturn \/ BackoffDone
    \/ Keepalive \/ KeepaliveFail
    \/ IngestHeader \/ IngestClosed \/ IngestSkip \/ IngestBody
    \/ IngestLocked \/ IngestAfterBatch
    \/ SnapshotTick
    \/ \E p \in Persisters :
        \/ PersistAcquire(p) \/ PersistConnect(p) \/ PersistInsert(p)
        \/ PersistCommit(p) \/ PersistClose(p) \/ PersistFail(p)
    \/ Tick

Spec == Init /\ [][Next]_vars

\* --------------------------------- the monitor with nothing that fails
\* the step ends neither the attempt nor a task: no send or recv raises, the
\* server sends what listen and process_updates accept, the store answers
Stays ==
    /\ pc' \notin {"backoff", "stopped"}
    /\ \A t \in Tasks : ts'[t] # "failed"

\* the steps of the monitor while the connection stays up and the store
\* succeeds
LiveNext ==
    \/ ConnectOk \/ Send \/ (RecvHeader /\ Stays) \/ RecvBodyNext
    \/ (RecvStructure /\ Stays) \/ RecvSubscribed
    \/ Keepalive
    \/ (IngestHeader /\ Stays) \/ IngestSkip \/ (IngestBody /\ Stays)
    \/ IngestLocked \/ IngestAfterBatch
    \/ SnapshotTick
    \/ \E p \in Persisters :
        \/ PersistAcquire(p) \/ PersistConnect(p) \/ PersistInsert(p)
        \/ PersistCommit(p) \/ PersistClose(p)
    \/ Tick

\* the monitor is started with a database uri
LiveInit == Init /\ uri = "postgresql"

\* The asyncio event loop runs every callback that is ready, in the order
\* they became ready: a task whose lock was handed over or whose store call
\* has returned runs next, and process_updates goes on after its batch.  A
\* task whose sleep has ended runs after at most one step of every other
\* task, and the clock goes on whatever the tasks do: both stay due while
\* process_updates passes through its batches, hence the strong fairness.
\* What the server sends, and when, is left open.
LiveFairness ==
    /\ SF_vars(SnapshotTick) /\ WF_vars(Keepalive)
    /\ WF_vars(IngestLocked) /\ WF_vars(IngestAfterBatch)
    /\ \A p \in Persisters :
        /\ WF_vars(PersistAcquire(p)) /\ WF_vars(PersistConnect(p))
        /\ WF_vars(PersistInsert(p)) /\ WF_vars(PersistCommit(p))
        /\ WF_vars(PersistClose(p))
    /\ SF_vars(Tick)

LiveSpec == LiveInit /\ [][LiveNext]_vars /\ LiveFairness

\* ------------------------------------------------- the entity model alone
\* Building.update driven directly, on the building of the second structure
\* document: every leaf kind of Room.__init__ is registered, and the values an
\* update may carry are None and doubles (in tenths) that fall on a multiple
\* of the scales (0), between two (0.3, 0.7) and halfway between two (0.5).
EntityValues == {Null, Num(0), Num(3), Num(5), Num(7)}
EntityIds == AllLeaves \cup {UnknownId}

\* the building as Building.__init__ leaves it, nothing else running
EntityInit ==
    /\ pc = "wait" /\ hs = 0 /\ attempts = 0 /\ sock = "open"
    /\ sent = <<>> /\ rx = RxNone /\ exc = NoExc /\ wake = 0
    /\ ts = [t \in Tasks |-> "none"] /\ texc = [t \in Tasks |-> NoExc]
    /\ kwake = 0 /\ ipc = "header" /\ ibatch = <<>> /\ swake = 0
    /\ ppc = [p \in Persisters |-> "idle"] /\ pnow = [p \in Persisters |-> NoTime]
    /\ lock = "none" /\ txRows = {}
    /\ change = NO /\ lastPersisted = 0
    /\ value = [l \in AllLeaves |-> Null]
    /\ store = {} /\ now = StartTime /\ uri = "none"
    /\ NotParsing /\ NotUncompressing /\ NotConstructing
    /\ NotLooping /\ NotPadding

\* one pass of the batch loop: building.update(id, v), then building.change
\* is raised when the response is higher
EntityUpdate ==
    /\ \E id \in EntityIds, v \in EntityValues :
        LET st == UpdateStep([vals |-> value, change |-> change], <<id, v>>)
        IN  value' = st.vals /\ change' = st.change
    /\ UNCHANGED <<lastPersisted, supVars, taskVars, persistVars, envVars>>
    /\ UNCHANGED pureVars

\* persist_data with the URI 'none' passing its guards: the reset of the
\* building
EntityReset ==
    /\ PersistDecision(change, lastPersisted, now, uri) = "reset"
    /\ lastPersisted' = now /\ change' = NO
    /\ UNCHANGED <<value, supVars, taskVars, persistVars, envVars>>
    /\ UNCHANGED pureVars

EntityNext == EntityUpdate \/ EntityReset

EntitySpec == EntityInit /\ [][EntityNext]_vars

\* the monitor before process has done anything, with no database URI
MonitorIdle ==
    /\ pc = "connect" /\ hs = 0 /\ attempts = 0 /\ sock = "none"
    /\ sent = <<>> /\ rx = RxNone /\ exc = NoExc /\ wake = 0
    /\ ts = [t \in Tasks |-> "none"] /\ texc = [t \in Tasks |-> NoExc]
    /\ kwake = 0 /\ ipc = "header" /\ ibatch = <<>> /\ swake = 0
    /\ ppc = [p \in Persisters |-> "idle"] /\ pnow = [p \in Persisters |-> NoTime]
    /\ lock = "none" /\ txRows = {}
    /\ change = NoBuilding.change /\ lastPersisted = NoBuilding.lastPersisted
    /\ value = NoBuilding.value
    /\ store = {} /\ now = StartTime /\ uri = "none"

\* ------------------------------------------- MessageHeader.parse alone
\* Calls of MessageHeader.parse on a socket whose peer sends any of Headers.
\* received keeps the raw headers the running call has read, so that what the
\* call does with a header can be told from the header's bytes.

\* the estimation headers the peer sends in a row
MaxEstimations == 2

\* the call has read the headers so far and the last one was an estimation
\* header: parse calls itself and websocket.recv() gives the next header
ParseRecv ==
    /\ returned = NoReturn
    /\ \E h \in Headers :
        LET r == ParseOne(h) IN
        /\ r.kind = "estimation" => Len(received) < MaxEstimations
        /\ received' = Append(received, h)
        /\ returned' =
            CASE r.kind = "error" -> Raised("AssertionError")
              [] r.kind = "estimation" -> NoReturn
              [] r.kind = "header" ->
                    [type |-> "header", identifier |-> r.identifier, size |-> r.size]
    /\ UNCHANGED <<monitorVars, uncVars, regVars, loopVars, padVars>>

\* websocket.recv() raises ConnectionClosed
ParseClosed ==
    /\ returned = NoReturn
    /\ \E c \in CloseCodes : returned' = Closed(c)
    /\ UNCHANGED received
    /\ UNCHANGED <<monitorVars, uncVars, regVars, loopVars, padVars>>

\* the caller got a header and calls MessageHeader.parse for the next one
ParseCall ==
    /\ returned.type = "header"
    /\ received' = <<>> /\ returned' = NoReturn
    /\ UNCHANGED <<monitorVars, uncVars, regVars, loopVars, padVars>>

HeaderInit == MonitorIdle /\ NotParsing /\ NotUncompressing /\ NotConstructing
    /\ NotLooping /\ NotPadding

HeaderNext == ParseRecv \/ ParseClosed \/ ParseCall

HeaderSpec == HeaderInit /\ [][HeaderNext]_vars

\* ------------------------------------------------ Building.__init__ alone
\* The construction of a Building from a structure document that may bind any
\* identifier to any state: the leaves of a room are constructed in the order
\* of Room.__init__, each registering the identifier the document gives for
\* its state.

\* the leaves Room.__init__ constructs for a room with one control of each
\* type, by the measurement they feed (valve has none)
Slots ==
    <<"temperature", "temperatureTarget", "humidity", "light", "shading",
      "ventilation", "precence">>
\* the identifiers a structure document may give for a state
Uuids == AllLeaves

\* register with the test for a registered id left out: the id is bound again
\* (variant used to test RoutingFrozen)
registerRebind(reg, id, function) ==
    [raised |-> FALSE,
     registry |-> [x \in DOMAIN reg \cup {id} |-> IF x = id THEN function ELSE reg[x]]]

\* Registry.register
register(reg, id, function) ==
    IF id \in DOMAIN reg
    THEN [raised |-> TRUE, registry |-> reg]
    ELSE [raised |-> FALSE,
          registry |-> [x \in DOMAIN reg \cup {id} |-> IF x = id THEN function ELSE reg[x]]]

\* Building(message) is called
Construct ==
    /\ constructed.status \in {"none", "built", "ValueError"}
    /\ registry' = NoRegistry
    /\ constructed' = [status |-> "building", leaves |-> <<>>]
    /\ UNCHANGED <<monitorVars, codecVars, uncVars, loopVars, padVars>>

\* RawValue.__init__ of the next leaf: it takes the id the document gives for
\* its state and registers it
RegisterLeaf ==
    /\ constructed.status = "building"
    /\ Len(constructed.leaves) < Len(Slots)
    /\ \E id \in Uuids :
        LET r == register(registry, id, Len(constructed.leaves) + 1) IN
        /\ registry' = r.registry
        /\ constructed' =
            IF r.raised
            THEN [constructed EXCEPT !.status = "ValueError"]
            ELSE [constructed EXCEPT !.leaves = Append(@, id)]
    /\ UNCHANGED <<monitorVars, codecVars, uncVars, loopVars, padVars>>

\* the last leaf is constructed: Building.__init__ returns
ConstructDone ==
    /\ constructed.status = "building"
    /\ Len(constructed.leaves) = Len(Slots)
    /\ constructed' = [constructed EXCEPT !.status = "built"]
    /\ UNCHANGED registry
    /\ UNCHANGED <<monitorVars, codecVars, uncVars, loopVars, padVars>>

RegistryInit == MonitorIdle /\ NotParsing /\ NotUncompressing /\ NotConstructing
    /\ NotLooping /\ NotPadding

RegistryNext == Construct \/ RegisterLeaf \/ ConstructDone

RegistrySpec == RegistryInit /\ [][RegistryNext]_vars

\* ------------------------------------------------------ uncompress alone
\* uncompress on the entry sps0.LoxCC of a downloaded archive: the compressed
\* bytes are drawn when the call starts, the words of the entry's header when
\* they are read.

\* the longest compressed body
MaxData == 5

\* The bytes a compressed body is made of: as a token, 0x00 is no literal and
\* a match of 4, 0x01 a match of 5, 0x10 one literal and a match of 4, 0x1f
\* one literal and a match of 19 or more, 0x20 two literals and a match of 4,
\* 0xff both lengths extended; as an offset, 00 00 is 0, 01 00 is 1 and 02 00
\* is 2; each of them is also a literal or a byte of a length
Bytes == {0, 1, 2, 16, 31, 32, 255}
Datas == UNION {[1..n -> Bytes] : n \in 0..MaxData}

\* bitwise exclusive or of two naturals
RECURSIVE Xor(_, _)
Xor(a, b) ==
    IF a = 0 THEN b
    ELSE IF b = 0 THEN a
    ELSE 2 * Xor(a \div 2, b \div 2) + ((a + b) % 2)

\* 32-bit words are kept as their four bytes, least significant first
XorWord(v, w) ==
    <<Xor(v[1], w[1]), Xor(v[2], w[2]), Xor(v[3], w[3]), Xor(v[4], w[4])>>
ShiftRight(w) ==
    <<(w[1] \div 2) + 128 * (w[2] % 2), (w[2] \div 2) + 128 * (w[3] % 2),
      (w[3] \div 2) + 128 * (w[4] % 2), w[4] \div 2>>
ShiftRightByte(w) == <<w[2], w[3], w[4], 0>>

\* one byte of CRC-32, bit by bit: the table entry of zlib.crc32
RECURSIVE CrcBits(_, _)
CrcBits(c, n) ==
    IF n = 0 THEN c
    ELSE CrcBits(IF c[1] % 2 = 1 THEN XorWord(ShiftRight(c), CRC_POLY)
                 ELSE ShiftRight(c), n - 1)
CrcTable == [b \in 0..255 |-> CrcBits(<<b, 0, 0, 0>>, 8)]

\* the register after the bytes lo..hi of a sequence, from the register c
\* before them; the range is split in two so that a long output nests to the
\* logarithm of its length, and the register after the first half, a word of
\* four bytes, is computed before the second half is entered
RECURSIVE CrcRange(_, _, _, _)
CrcRange(c, bytes, lo, hi) ==
    IF lo > hi THEN c
    ELSE IF lo = hi
    THEN XorWord(CrcTable[Xor(c[1], bytes[lo])], ShiftRightByte(c))
    ELSE LET mid == (lo + hi) \div 2
             first == CrcRange(c, bytes, lo, mid)
         IN  CASE Len(first) = 4 -> CrcRange(first, bytes, mid + 1, hi)
CrcUpdate(c, bytes) == CrcRange(c, bytes, 1, Len(bytes))

\* zlib.crc32(bytes)
crc32(bytes) == XorWord(CrcUpdate(CRC_MASK, bytes), CRC_MASK)

\* the output of the documented example, with the byte 0x02 for its letter: the
\* letter and a match of length 4
\* at offset 1
Example == <<2, 2, 2, 2, 2>>

\* the words an entry's header may declare: the length and the checksum of
\* Example, each also paired with one that is not Example's
Declarations ==
    {[size |-> Len(Example), crc |-> crc32(Example)],
     [size |-> Len(Example), crc |-> crc32(<<>>)],
     [size |-> Len(Example) + 1, crc |-> crc32(Example)]}
Magics == {MAGIC, [MAGIC EXCEPT ![1] = 237]}

\* seq[start:stop] of Python, for any integers start and stop
PySlice(seq, start, stop) ==
    LET n == Len(seq)
        norm(i) == IF i < 0 THEN (IF i + n < 0 THEN 0 ELSE i + n)
                   ELSE IF i > n THEN n ELSE i
    IN  IF norm(start) >= norm(stop) THEN <<>>
        ELSE SubSeq(seq, norm(start) + 1, norm(stop))

\* one pass of the copy loop appending result[-bytesBack:], all that stands
\* from the offset to the end (variant used to test MatchCopied)
CopiedTail(res, back) == PySlice(res, -back, Len(res))

\* a length extension that hands back index 0 instead of the index after the
\* bytes read (variant used to test PacketLoopTerminates)
ReadLengthRestart(d, i) == [ok |-> TRUE, sum |-> 0, index |-> 0]

\* the loop `while True: val = data[index]; length += val; index += 1;
\* if val != 0xff: break` from index i: the sum of the bytes read and the index
\* after them, or ok = FALSE when the read runs off the end of d
RECURSIVE ReadLength(_, _)
ReadLength(d, i) ==
    IF i >= Len(d) THEN [ok |-> FALSE, sum |-> 0, index |-> i]
    ELSE IF d[i + 1] # MORE THEN [ok |-> TRUE, sum |-> d[i + 1], index |-> i + 1]
    ELSE LET r == ReadLength(d, i + 1)
         IN  [ok |-> r.ok, sum |-> MORE + r.sum, index |-> r.index]

\* the byte one pass of the copy loop appends: result[-bytesBack:] when
\* -bytesBack + 1 == 0, else result[-bytesBack:-bytesBack + 1]
CopiedSlice(res, back) ==
    IF -back + 1 = 0 THEN PySlice(res, -back, Len(res))
    ELSE PySlice(res, -back, -back + 1)

\* the two tests after the packet loop, with the length test left out
\* (variant used to test ResultVerified)
VerifiedNoLength(res, size, crc) ==
    IF crc # crc32(res) THEN [type |-> "None"]
    ELSE [type |-> "result", bytes |-> res]

\* the two tests after the packet loop: None, or the result
Verified(res, size, crc) ==
    IF crc # crc32(res) THEN [type |-> "None"]
    ELSE IF Len(res) # size THEN [type |-> "None"]
    ELSE [type |-> "result", bytes |-> res]

\* uncompress ends: it returns r or raises
UncompressEnds(r) == uret' = r /\ upc' = "done"

\* uncompress goes round `while index < len(data)`, with i the index now
LoopTest(i) == IF i < Len(data) THEN "packet" ELSE "verify"

\* lines 44-54: the magic word is read and tested, then the declared sizes and
\* checksum and the compressed bytes
Open ==
    /\ upc = "open"
    /\ \E h \in Magics, d \in Declarations :
        /\ uheader' = h
        /\ IF h # MAGIC
           THEN /\ UncompressEnds([type |-> "None"])
                /\ UNCHANGED <<uncompressedSize, checksum>>
           ELSE /\ uncompressedSize' = d.size /\ checksum' = d.crc
                /\ upc' = LoopTest(0)
                /\ UNCHANGED uret
    /\ index' = 0 /\ result' = <<>>
    /\ UNCHANGED <<data, byte, bytesBack, bytesBackCopied>>
    /\ UNCHANGED <<monitorVars, codecVars, regVars, loopVars, padVars>>

\* lines 61-91, one packet up to its copy loop: the token, the literal length
\* and the literals; then, unless the input is used up, the offset and the
\* match length.  Reading a length byte past the end of data raises.
Packet ==
    /\ upc = "packet"
    /\ LET token == data[index + 1]
           copy == IF token \div 16 = 15
                   THEN ReadLength(data, index + 1)
                   ELSE [ok |-> TRUE, sum |-> 0, index |-> index + 1]
           copyBytes == token \div 16 + copy.sum
           literals == PySlice(data, copy.index, copy.index + copyBytes)
           atOffset == copy.index + copyBytes
           match == IF token % 16 = 15
                    THEN ReadLength(data, atOffset + 2)
                    ELSE [ok |-> TRUE, sum |-> 0, index |-> atOffset + 2]
       IN  /\ byte' = token % 16
           /\ IF ~copy.ok
              THEN \* data[index] raises IndexError (line 67)
                   /\ UncompressEnds(Raised("IndexError"))
                   /\ index' = copy.index
                   /\ UNCHANGED <<result, bytesBack, bytesBackCopied>>
              ELSE IF atOffset >= Len(data)
              THEN \* the literals used up the input: break (lines 75-76)
                   /\ upc' = "verify"
                   /\ index' = atOffset /\ result' = result \o literals
                   /\ UNCHANGED <<uret, bytesBack, bytesBackCopied>>
              ELSE IF atOffset + 2 > Len(data)
              THEN \* struct.unpack('<H', ...) of one byte raises (line 79)
                   /\ UncompressEnds(Raised("struct.error"))
                   /\ index' = atOffset /\ result' = result \o literals
                   /\ UNCHANGED <<bytesBack, bytesBackCopied>>
              ELSE IF ~match.ok
              THEN \* struct.unpack('<B', ...) of no byte raises (line 87)
                   /\ UncompressEnds(Raised("struct.error"))
                   /\ index' = match.index /\ result' = result \o literals
                   /\ bytesBack' = data[atOffset + 1] + 256 * data[atOffset + 2]
                   /\ UNCHANGED bytesBackCopied
              ELSE /\ upc' = "copy"
                   /\ index' = match.index /\ result' = result \o literals
                   /\ bytesBack' = data[atOffset + 1] + 256 * data[atOffset + 2]
                   /\ bytesBackCopied' = 4 + (token % 16) + match.sum
                   /\ UNCHANGED uret
    /\ UNCHANGED <<uheader, uncompressedSize, checksum, data>>
    /\ UNCHANGED <<monitorVars, codecVars, regVars, loopVars, padVars>>

\* lines 94-99: one pass of the copy loop
CopyByte ==
    /\ upc = "copy" /\ bytesBackCopied > 0
    /\ result' = result \o CopiedSlice(result, bytesBack)
    /\ bytesBackCopied' = bytesBackCopied - 1
    /\ upc' = IF bytesBackCopied' > 0 THEN "copy" ELSE LoopTest(index)
    /\ UNCHANGED <<uheader, uncompressedSize, checksum, data, index, byte,
                   bytesBack, uret>>
    /\ UNCHANGED <<monitorVars, codecVars, regVars, loopVars, padVars>>

\* lines 100-108: the checksum and the length are compared with the declared
\* ones
Verify ==
    /\ upc = "verify"
    /\ UncompressEnds(Verified(result, uncompressedSize, checksum))
    /\ UNCHANGED <<uheader, uncompressedSize, checksum, data, index, result,
                   byte, bytesBack, bytesBackCopied>>
    /\ UNCHANGED <<monitorVars, codecVars, regVars, loopVars, padVars>>

UncompressInit ==
    /\ MonitorIdle /\ NotParsing /\ NotConstructing
    /\ NotLooping /\ NotPadding
    /\ data \in Datas
    /\ uheader = <<0, 0, 0, 0>> /\ uncompressedSize = 0
    /\ checksum = <<0, 0, 0, 0>>
    /\ index = 0 /\ result = <<>>
    /\ byte = 0 /\ bytesBack = 0 /\ bytesBackCopied = 0
    /\ upc = "open" /\ uret = NoReturn

UncompressNext == Open \/ Packet \/ CopyByte \/ Verify

UncompressSpec == UncompressInit /\ [][UncompressNext]_vars

\* ------------------------------------------- process_updates on its own
\* process_updates (monitor.py:36-60) reading from a socket on which the peer
\* sends whole messages: a header, after an estimation header or not, and the
\* body it announces.

\* the most messages in flight
MaxWire == 3

\* a message on the socket: the 8 bytes of a header, or a body with the
\* identifier of the header that announced it
HeaderFrame(h) ==
    [frame |-> "header", h |-> h, of |-> 0, msg |-> [recs |-> <<>>, tail |-> 0]]
BodyFrame(id, msg) ==
    [frame |-> "body", of |-> id, msg |-> msg,
     h |-> [prefix |-> 0, identifier |-> 0, info |-> 0, reserved |-> 0, size |-> 0]]

\* the headers the peer sends in front of a message: TEXT, VALUE_STATES,
\* KEEPALIVE and an identifier outside the enum, announcing 0 or 24 bytes
SentHeaders ==
    {h \in Headers : /\ h.prefix = PREFIX /\ h.reserved = RESERVED /\ h.info = 0
                     /\ h.identifier \in {0, 2, 6, 9}}
\* the estimation header the peer may send before the header h: the 0x80 bit
\* of the info byte is set, alone or with another bit
EstimationInfos == {ESTIMATION_HEADER, 129}
\* the peer sends a body after the header h
Announces(h) == convert(h.identifier) # "KEEPALIVE" /\ h.size # 0
\* the bodies the peer sends: value states of the switch of r2, whole or cut
\* inside a record, and for every other identifier bytes that are no records
ValueBodies ==
    {m \in Messages : /\ Len(m.recs) = 1 /\ m.recs[1][1] = "active2"
                      /\ m.tail \in {0, 16}}

\* the peer sends one message
PeerSends ==
    /\ lpc \in {"header", "body", "skip"}
    /\ \E h \in SentHeaders, est \in {0} \cup EstimationInfos :
        \E b \in (IF convert(h.identifier) = "VALUE_STATES" THEN ValueBodies
                 ELSE {[recs |-> <<>>, tail |-> 16]}) :
            LET frames ==
                    (IF est # 0 THEN <<HeaderFrame([h EXCEPT !.info = est])>> ELSE <<>>)
                    \o <<HeaderFrame(h)>>
                    \o (IF Announces(h) THEN <<BodyFrame(h.identifier, b)>> ELSE <<>>)
            IN  /\ Len(wire) + Len(frames) <= MaxWire
                /\ wire' = wire \o frames
    /\ UNCHANGED <<lpc, lheader, lrecv, lgraph>>
    /\ UNCHANGED <<monitorVars, codecVars, uncVars, regVars, padVars>>

\* line 37: MessageHeader.parse receives the next message.  An estimation
\* header makes it receive again; a message that is no header unpacks to
\* whatever its bytes give, or raises.
LoopHeader ==
    /\ lpc = "header" /\ wire # <<>>
    /\ wire' = Tail(wire)
    /\ \E r \in (IF Head(wire).frame = "header"
                 THEN {ParseOne(Head(wire).h)} ELSE ParsedHeaders) :
        CASE r.kind = "estimation" -> UNCHANGED <<lpc, lheader, lrecv>>
          [] r.kind = "error" ->
                lpc' = "failed" /\ UNCHANGED <<lheader, lrecv>>
          [] r.kind = "header" ->
                /\ lheader' = [identifier |-> r.identifier, size |-> r.size]
                /\ lrecv' = <<>>
                /\ lpc' = IngestDispatch(r)
    /\ UNCHANGED lgraph
    /\ UNCHANGED <<monitorVars, codecVars, uncVars, regVars, padVars>>

\* lines 47-57: parseValueStates receives the next message and the batch is
\* applied; persist_data is called when building.change is above LATER, and
\* returns with the change reset or raises.  A header received here is 8
\* bytes, no whole record: unpack_from raises.
LoopBody ==
    /\ lpc = "body" /\ wire # <<>>
    /\ wire' = Tail(wire) /\ lrecv' = Append(lrecv, Head(wire))
    /\ LET r == IF Head(wire).frame = "body"
                THEN parseValueStates(Head(wire).msg)
                ELSE [ok |-> FALSE, states |-> <<>>]
           st == ApplyBatch(lgraph, r.states)
       IN  IF ~r.ok
           THEN lpc' = "failed" /\ UNCHANGED lgraph
           ELSE IF PersistTrigger(st.change)
           THEN \/ lgraph' = [st EXCEPT !.change = NO] /\ lpc' = "header"
                \/ lgraph' = st /\ lpc' = "failed"
           ELSE lgraph' = st /\ lpc' = "header"
    /\ UNCHANGED lheader
    /\ UNCHANGED <<monitorVars, codecVars, uncVars, regVars, padVars>>

\* lines 58-60: the message of an unsupported header is received and dropped
LoopSkip ==
    /\ lpc = "skip" /\ wire # <<>>
    /\ wire' = Tail(wire) /\ lrecv' = Append(lrecv, Head(wire))
    /\ lpc' = "header"
    /\ UNCHANGED <<lheader, lgraph>>
    /\ UNCHANGED <<monitorVars, codecVars, uncVars, regVars, padVars>>

\* websocket.recv() raises ConnectionClosed
LoopClosed ==
    /\ lpc \in {"header", "body", "skip"}
    /\ lpc' = "failed"
    /\ UNCHANGED <<wire, lheader, lrecv, lgraph>>
    /\ UNCHANGED <<monitorVars, codecVars, uncVars, regVars, padVars>>

\* process_updates is started on the fresh building of listen
LoopInit ==
    /\ MonitorIdle /\ NotParsing /\ NotUncompressing /\ NotConstructing
    /\ NotPadding
    /\ wire = <<>> /\ lpc = "header" /\ lheader = NoHeader /\ lrecv = <<>>
    /\ lgraph = [vals |-> FreshBuilding.value, change |-> FreshBuilding.change]

LoopNext == PeerSends \/ LoopHeader \/ LoopBody \/ LoopSkip \/ LoopClosed

LoopSpec == LoopInit /\ [][LoopNext]_vars

\* ------------------------------------------------------ _zero_pad alone
\* AuthenticationUtil._zero_pad (loxone_server.py:34-37) called on one message.

\* the longest message padded
MaxMessage == 18

\* AES.block_size
BLOCK_SIZE == 16

\* padding up to the next multiple of the block size, none for a message that
\* is one already (variant used to test ZeroPadded)
zero_padToMultiple(msg) ==
    msg \o [i \in 1..((BLOCK_SIZE - (Len(msg) % BLOCK_SIZE)) % BLOCK_SIZE) |-> 0]

\* _zero_pad: message + b'\0' * (size - len(message) % size)
zero_pad(msg) == msg \o [i \in 1..(BLOCK_SIZE - (Len(msg) % BLOCK_SIZE)) |-> 0]

\* the messages padded: bytes that differ from their neighbours, then up to
\* two bytes chosen freely, 0x00 among them
PadMessages ==
    {[i \in 1..n |-> (7 * i) % 256] \o h :
        h \in UNION {[1..k -> {0, 1, 255}] : k \in 0..2}, n \in 0..(MaxMessage - 2)}

\* lines 36-37
ZeroPad ==
    /\ padded = NoReturn
    /\ padded' = [type |-> "bytes", bytes |-> zero_pad(message)]
    /\ UNCHANGED message
    /\ UNCHANGED <<monitorVars, codecVars, uncVars, regVars, loopVars>>

PadInit ==
    /\ MonitorIdle /\ NotParsing /\ NotUncompressing /\ NotConstructing
    /\ NotLooping
    /\ message \in PadMessages /\ padded = NoReturn

PadSpec == PadInit /\ [][ZeroPad]_vars

\* ================================================================= claims
\* the last attempt ended with something other than a clean close (code 1000)
NonCleanExit ==
    exc # NoExc /\ ~(exc.type = "ConnectionClosed" /\ exc.code = CLEAN_CLOSE)
\* the last attempt ended with a clean close of the socket (code 1000)
CleanExit == exc.type = "ConnectionClosed" /\ exc.code = CLEAN_CLOSE
\* listen is inside its attempt
InAttempt == pc \in {"connect", "send", "header", "body", "wait"}

\* C1: an attempt that ends in any way other than a clean close with code
\* 1000 (handshake abort, protocol violation, another close code, I/O error,
\* task failure) is followed by the 20-second backoff and a fresh attempt; the
\* supervisor loop never stops on it.  As a state predicate: after such an end
\* the supervisor has not stopped.
RetryAfterFailure == NonCleanExit => pc # "stopped"

\* C2, as the specification states it: a clean close (code 1000) terminates
\* the supervisor, with no backoff and no further attempt.
CleanCloseStops == CleanExit => pc = "stopped"

\* C2, as the code has it: a clean close (code 1000) ends the attempt with
\* listen returning; the socket is closed, process sleeps the fixed 20 seconds
\* and, the sleep over, calls listen again.  It does not stop.
CleanCloseRetries ==
    [][ /\ (InAttempt /\ ~InAttempt' /\ CleanExit')
            => /\ pc' = "backoff"
               /\ wake' = now + 20
               /\ sock' = "closed"
        /\ (pc = "backoff" /\ pc' # "backoff" /\ CleanExit)
            => /\ pc' = "connect"
               /\ now >= wake ]_vars

\* a fresh attempt is about to start after the backoff that followed a clean
\* close in the middle of the handshake or of the stream
CleanCloseRetried ==
    /\ pc = "connect" /\ attempts = 1 /\ CleanExit
    /\ now >= wake /\ wake >= StartTime + 20

\* C3: a failure of a persist attempt (store connection, statement or commit
\* error) stays inside the task that attempted it: no task ends with it, the
\* socket stays open and the attempt goes on.
PersistFailureContained ==
    /\ \A t \in Tasks : ~(ts[t] = "failed" /\ texc[t].type = "StoreError")
    /\ exc.type # "StoreError"

\* the response of step r.step as the supervisor accepts it: the identifier of
\* the step, a body that parses, and for steps 2 and 5 the control echoed and
\* code 200 with the value expected
StepAccepted(r) ==
    /\ r.identifier = (IF r.step = 4 THEN "FILE" ELSE "TEXT")
    /\ r.body # NoBody
    /\ (r.step \in {2, 5} => r.body.control /\ r.body.code = "200" /\ r.body.value)
    /\ (r.step = 4 => r.body.value)

\* C4: the commands go out in the order H1 keyexchange, H2 getkey2, H3 enc,
\* H4 data/LoxAPP3.json, H5 enablebinstatusupdate; each one is sent only after
\* the response to the one before was received and accepted; the keepalive,
\* ingest and snapshot tasks start only after the response of H5 was accepted.
HandshakeOrder ==
    [][ /\ (Len(sent') > Len(sent))
            => /\ Len(sent) < 5
               /\ sent' = SubSeq(Commands, 1, Len(sent) + 1)
               /\ (sent # <<>> => rx.step = Len(sent) /\ StepAccepted(rx))
        /\ (\E t \in Tasks : ts'[t] = "running" /\ ts[t] # "running")
            => /\ sent = Commands
               /\ rx'.step = 5 /\ StepAccepted(rx')
               /\ \A t \in Tasks : ts[t] # "running" ]_vars

\* the five commands went out and the three tasks run
HandshakeDone ==
    /\ pc = "wait" /\ sent = Commands /\ rx.step = 5
    /\ \A t \in Tasks : ts[t] = "running"

\* C5: a response with a code other than 200 at step H2, H3 or H5 is fatal for
\* the attempt: no later command is sent, the tasks are not started and the
\* socket is closed.
Non200Fatal ==
    (rx.step \in {2, 3, 5} /\ rx.body # NoBody /\ rx.body.code # "200")
        => /\ sock = "closed"
           /\ Len(sent) = rx.step
           /\ \A t \in Tasks : ts[t] = "none"

\* C6: at every handshake step a frame whose identifier is not the expected
\* one (TEXT for H1, H2, H3 and H5, FILE for H4) aborts the attempt before the
\* body is used: the body is never read, no later command is sent and the
\* socket is closed.
IdentifierMismatchAborts ==
    (rx.step \in 1..5 /\ rx.identifier # (IF rx.step = 4 THEN "FILE" ELSE "TEXT"))
        => /\ rx.body = NoBody
           /\ Len(sent) = rx.step
           /\ sock = "closed"
           /\ ~InAttempt
           /\ \A t \in Tasks : ts[t] = "none"

\* a TEXT frame arrived where the structure file was expected, and the
\* attempt is over
MismatchAtStructure ==
    /\ rx.step = 4 /\ rx.identifier = "TEXT"
    /\ Len(sent) = 4 /\ sock = "closed"

\* C7: when one of the three tasks terminates, the supervisor cancels the other
\* two and closes the socket; no task of an attempt runs once the attempt has
\* ended.  (The tasks are endless loops: a task terminates by an exception
\* only.)
TasksCancelled ==
    [][ /\ (pc = "wait" /\ pc' # "wait")
            => /\ \E t \in Tasks : ts[t] = "failed"
               /\ \A t \in Tasks : ts'[t] \in {"failed", "cancelled"}
               /\ \A t \in Tasks : ts[t] = "running" => ts'[t] = "cancelled"
               /\ sock' = "closed"
        /\ (\E t \in Tasks : ts'[t] = "running") => (pc' = "wait" /\ sock' = "open")
      ]_vars

\* an attempt has ended on the failure of one task, with another cancelled
AttemptEndedByTask ==
    /\ ~InAttempt /\ sock = "closed"
    /\ \E t \in Tasks : ts[t] = "failed"
    /\ \E t \in Tasks : ts[t] = "cancelled"

\* the highest change class among a set of them (NO for the empty set)
MaxChange(S) == CHOOSE m \in S \cup {NO} : \A x \in S \cup {NO} : x <= m

\* the leaves whose value a step has changed
ChangedLeaves == {l \in Leaves : value'[l] # value[l]}

\* C8: across value-state updates with no persist in between, building.change
\* never decreases in NO < LATER < IMMEDIATE: after the updates of a batch it
\* is the maximum of what it was and the responses of the updates, the
\* response of an update being the class of the leaf it changed (NO when
\* nothing changed).
MonotoneChange ==
    [][ (ipc' = "applied" /\ ipc # "applied")
            => /\ change' >= change
               /\ change' = MaxChange({change} \cup
                                {LeafChange[l] : l \in ChangedLeaves}) ]_vars

\* a batch has been applied with building.change at IMMEDIATE and both leaves
\* set: the temperature (LATER) and the switch (IMMEDIATE)
BatchApplied ==
    /\ ipc = "applied" /\ change = IMMEDIATE
    /\ \A l \in Leaves : value[l] # Null

\* persist_data of p returns after its transaction has committed and the
\* connection is closed
PersistSucceeds(p) ==
    /\ ppc[p] = "close" /\ ppc'[p] = "idle"
    /\ ts'[p] = "running" /\ pc' = "wait"

\* C9: immediately after a successful persist building.change is NO and
\* building.lastPersisted is the unix timestamp, in whole seconds, that was
\* written as the time of the rows of the snapshot.
PersistReset ==
    [][ \A p \in Persisters :
            PersistSucceeds(p)
                => /\ change' = NO
                   /\ lastPersisted' = pnow[p].second
                   /\ \A r \in txRows : r.time = DateTime(lastPersisted', 0) ]_vars

\* a persist has succeeded: nothing is pending and a row of the store carries
\* the time building.lastPersisted holds
PersistedRow ==
    /\ pc = "wait" /\ uri # "none"
    /\ change = NO /\ lastPersisted >= StartTime
    /\ \E r \in store : r.time = DateTime(lastPersisted, 0)

\* a step, within one connection, that lowers building.change or changes
\* building.lastPersisted
ResetStep ==
    /\ pc = "wait" /\ pc' = "wait"
    /\ (change' < change \/ lastPersisted' # lastPersisted)

\* C10, as the specification states it: within one connection building.change
\* goes back to NO, and lastPersisted changes, only as the final step of a
\* persist whose store transaction committed.
ResetOnlyAfterCommit ==
    [][ ResetStep => \E p \in Persisters : PersistSucceeds(p) ]_vars

\* C10, as the code has it: within one connection building.change goes from
\* LATER or IMMEDIATE to NO, and lastPersisted changes, only as the final step
\* of a persist attempt that passed its guards: with a database URI after the
\* store transaction committed and the connection was closed, with the URI
\* 'none' with no store transaction at all.  Nothing else lowers
\* building.change or changes lastPersisted.
ResetOnlyByPersist ==
    [][ ResetStep
            => /\ change # NO /\ change' = NO
               /\ lastPersisted' >= lastPersisted
               /\ \/ uri # "none" /\ \E p \in Persisters : PersistSucceeds(p)
                  \/ /\ uri = "none" /\ txRows = {} /\ store' = store
                     /\ lastPersisted' = now
                     /\ (change = IMMEDIATE \/ now - lastPersisted >= 30) ]_vars

\* with the URI 'none' a persist has reset building.change and lastPersisted
\* while the store is empty
ResetWithoutStore ==
    /\ pc = "wait" /\ uri = "none" /\ store = {}
    /\ change = NO /\ lastPersisted >= StartTime
    /\ \E l \in Leaves : value[l] # Null

\* persist_data of p is past its guards and has not returned
Persisting(p) == ppc[p] \in {"connect", "tx", "commit", "close"}

\* C11: when a persist attempt fails (the store connection or the transaction
\* raises), building.change and building.lastPersisted keep the values they
\* had before the attempt: nothing changes them while the attempt runs nor
\* when it fails, and the change that was pending is still pending.
FailedPersistKeepsChange ==
    [][ \A p \in Persisters :
            (Persisting(p) /\ ~PersistSucceeds(p) /\ pc' = "wait")
                => /\ change' = change /\ change # NO
                   /\ lastPersisted' = lastPersisted
                   /\ value' = value ]_vars

\* a persist attempt has failed, the change is still pending and
\* lastPersisted was never set
PersistFailedPending ==
    /\ pc = "wait" /\ change # NO /\ lastPersisted = 0
    /\ \E t \in Persisters : ts[t] = "failed" /\ texc[t].type = "StoreError"

\* process_updates goes on after a batch: it calls persist_data or reads the
\* next header
AfterBatch == ipc = "applied" /\ ipc' # "applied"

\* the step is the ingest task attempting a persist that passes the guards:
\* with a database URI persist_data goes on to the store holding DATALOCK,
\* with the URI 'none' it resets the building at once
IngestPersists ==
    \/ /\ uri # "none"
       /\ ppc["ingest"] = "idle" /\ ppc'["ingest"] = "connect"
       /\ lock' = "ingest" /\ ipc' = "persist"
    \/ /\ uri = "none"
       /\ change # NO /\ change' = NO /\ lastPersisted' = now

\* C12: when a batch changes a leaf of class IMMEDIATE, the ingest task
\* attempts a persist for that batch before it reads the next header, however
\* recent the last persist is: the batch leaves building.change at IMMEDIATE,
\* and the next thing process_updates does is the persist.
ImmediatePersist ==
    [][ /\ (ipc' = "applied" /\ ipc # "applied"
                /\ \E l \in ChangedLeaves : LeafChange[l] = IMMEDIATE)
            => change' = IMMEDIATE
        /\ (AfterBatch /\ change = IMMEDIATE) => IngestPersists ]_vars

\* the ingest task is in a persist that started less than 30 seconds after
\* the last one
ImmediatePersistInWindow ==
    /\ ppc["ingest"] = "connect" /\ change = IMMEDIATE
    /\ lastPersisted >= StartTime
    /\ pnow["ingest"].second - lastPersisted < 30

\* C13, as the specification states it: after a batch that leaves
\* building.change at LATER the ingest task attempts a persist right after the
\* batch exactly when now - lastPersisted >= 30.
LaterBatchPersistsAfterWindow ==
    [][ (AfterBatch /\ change = LATER)
            => (IngestPersists <=> now - lastPersisted >= 30) ]_vars

\* C13, as the code has it: after a batch that leaves building.change at
\* LATER the ingest task attempts no persist, however long ago the last one
\* was: it reads the next header, and the change waits for the scheduled tick.
LaterBatchNoPersist ==
    [][ (AfterBatch /\ change = LATER)
            => /\ ~IngestPersists
               /\ ipc' = "header"
               /\ UNCHANGED <<ppc, pnow, lock, txRows, store>>
               /\ UNCHANGED <<change, lastPersisted, value>> ]_vars

\* the ingest task reads the next header with a LATER change pending, no
\* persist running and the last persist 30 seconds or more ago
LaterPendingAfterWindow ==
    /\ pc = "wait" /\ ts["ingest"] = "running" /\ ipc = "header"
    /\ change = LATER /\ now - lastPersisted >= 30
    /\ \A p \in Persisters : ppc[p] = "idle"

\* persist_data called by scheduled_persist comes to its guards: at once when
\* DATALOCK is free, or once the lock it waited for is handed to it
TickDecides ==
    /\ pc = "wait" /\ pc' = "wait" /\ ts'["snapshot"] = "running"
    /\ \/ /\ ppc["snapshot"] = "idle"
          /\ (ppc'["snapshot"] = "connect" \/ swake' # swake)
       \/ /\ ppc["snapshot"] = "lock" /\ ppc'["snapshot"] # "lock"

\* the clock reading of the persist_data call of scheduled_persist
TickTime == IF ppc["snapshot"] = "idle" THEN now ELSE pnow["snapshot"].second

\* the tick's persist_data passes its guards and persists
TickPerforms ==
    \/ uri # "none" /\ ppc'["snapshot"] = "connect" /\ lock' = "snapshot"
    \/ /\ uri = "none"
       /\ change # NO /\ change' = NO /\ lastPersisted' = TickTime

\* C14, as the specification states it: every tick of the time-driven loop
\* persists whenever building.change # NO, with no other guard.
TickPersistsUnlessNo ==
    [][ TickDecides => (TickPerforms <=> change # NO) ]_vars

\* C14, as the code has it: every tick of the time-driven loop calls
\* persist_data, which persists when building.change is IMMEDIATE, or is LATER
\* with 30 seconds or more between lastPersisted and the clock reading of the
\* call; with a LATER change younger than that, as with NO, it does nothing.
TickPersists ==
    [][ TickDecides
            => /\ TickPerforms
                    <=> \/ change = IMMEDIATE
                        \/ change = LATER /\ TickTime - lastPersisted >= 30
               /\ ~TickPerforms
                    => /\ ppc'["snapshot"] = "idle"
                       /\ swake' = now + 30
                       /\ UNCHANGED <<change, lastPersisted, value, store>>
      ]_vars

\* a tick persists a LATER change, 30 seconds or more after the last persist
\* of this connection
TickPersistsLater ==
    /\ ppc["snapshot"] = "connect" /\ change = LATER
    /\ lastPersisted >= StartTime
    /\ pnow["snapshot"].second - lastPersisted >= 30

\* C15: while every pending change is of class LATER and less than 30 seconds
\* have passed since lastPersisted, no row is written and building.change is
\* not reset, however many LATER updates arrive; a LATER change is persisted
\* by a scheduled tick, never by an ingest batch.
LaterWindow ==
    [][ (pc = "wait" /\ pc' = "wait" /\ change = LATER)
            => /\ ppc["ingest"] = "idle" /\ ppc'["ingest"] = "idle"
               /\ (change' = NO \/ ppc'["snapshot"] = "connect"
                        \/ ~(store' \subseteq store) \/ txRows' # txRows)
                    => /\ ppc["snapshot"] # "lock" => TickTime - lastPersisted >= 30
                       /\ ppc["snapshot"] = "lock"
                            => pnow["snapshot"].second - lastPersisted >= 30
      ]_vars

\* LATER updates are pending inside the window that follows a persist of this
\* connection, and nothing persists them
LaterHeldBack ==
    /\ pc = "wait" /\ change = LATER
    /\ lastPersisted >= StartTime /\ now - lastPersisted < 30
    /\ value["tempActual1"] # Null
    /\ \A p \in Persisters : ppc[p] = "idle"
    /\ \A t \in Tasks : ts[t] = "running"

\* C16: a persist and an ingest batch never interleave.  From the guards of
\* persist_data to its reset of building.change no batch is applied: no leaf
\* value and not building.change is modified, so the rows of the transaction
\* are those of the leaf values as whole batches left them, and they still are
\* when building.change is reset.
NoInterleaving ==
    [][ \A p \in Persisters :
            /\ (Persisting(p) /\ pc' = "wait")
                => /\ value' = value
                   /\ ipc' # "applied"
                   /\ (change' = change \/ PersistSucceeds(p))
                   /\ lock = p
            /\ (ppc'[p] \in {"commit", "close"})
                => txRows' = RowsOf(value', pnow'[p]) ]_vars

\* a batch has arrived while the scheduled persist is between its INSERTs and
\* its reset: process_updates waits for DATALOCK with the batch unapplied
BatchHeldBack ==
    /\ ppc["snapshot"] \in {"commit", "close"} /\ txRows # {}
    /\ ipc = "lock" /\ ibatch # <<>>

\* the task that takes the step, read off the task's own position
IngestActs == ipc' # ipc \/ ibatch' # ibatch \/ ppc'["ingest"] # ppc["ingest"]
SnapshotActs == swake' # swake \/ ppc'["snapshot"] # ppc["snapshot"]

\* a step, within one connection, that writes a leaf value or raises
\* building.change
WriteStep ==
    /\ pc = "wait" /\ pc' = "wait"
    /\ (value' # value \/ change' > change)

\* C17, as the specification states it: only the ingest task writes leaf
\* values and raises building.change, and only the snapshot task writes
\* building.lastPersisted and resets building.change to NO.
SnapshotSoleResetter ==
    [][ /\ WriteStep => (IngestActs /\ ~SnapshotActs)
        /\ ResetStep => (SnapshotActs /\ ~IngestActs) ]_vars

\* C17, as the code has it: only the ingest task writes leaf values and raises
\* building.change; building.lastPersisted is written and building.change
\* reset to NO by persist_data, which runs in the snapshot task for a
\* scheduled tick and in the ingest task for a change of class IMMEDIATE.
SharedStateWriters ==
    [][ /\ WriteStep => (IngestActs /\ ~SnapshotActs)
        /\ ResetStep
            => \/ SnapshotActs /\ ~IngestActs
               \/ IngestActs /\ ~SnapshotActs /\ change = IMMEDIATE ]_vars

\* building.lastPersisted is set while the clock still reads the time of the
\* subscription, 30 seconds before the first tick of scheduled_persist: the
\* persist was one of the ingest task
ResetByIngest ==
    /\ pc = "wait" /\ attempts = 1 /\ now = StartTime
    /\ lastPersisted = StartTime /\ change = NO
    /\ value["active2"] # Null

\* the building Registry.update works on
BuildingNow == [vals |-> value, change |-> change]

\* C18: an update whose rounded (RoundedValue) or coerced (BoolValue)
\* candidate equals the stored value of the leaf, None included, classifies
\* as NO, leaves every stored value as it is and does not raise
\* building.change; and after setValue(v) a setValue of the rounded v
\* classifies as NO.
RedundantUpdateIsNo ==
    \A l \in DOMAIN value, v \in EntityValues :
        LET r == update(value, l, v)
            again == update(r.vals, l, r.vals[l])
        IN  /\ (Candidate(l, v) = value[l])
                => /\ r.response = NO
                   /\ r.vals = value
                   /\ UpdateStep(BuildingNow, <<l, v>>) = BuildingNow
            /\ again.response = NO
            /\ again.vals = r.vals

\* the temperature leaf holds 0.5 and the switch True, nothing is pending: an
\* update of the temperature to 0.3, which rounds to 0.5, or of the switch to
\* 0.7, which coerces to True, is redundant
RedundantUpdatePossible ==
    /\ DOMAIN value = AllLeaves /\ change = NO
    /\ value["tempActual1"] = Num(5) /\ Candidate("tempActual1", Num(3)) = Num(5)
    /\ value["active2"] = Bool(TRUE) /\ Candidate("active2", Num(7)) = Bool(TRUE)
    /\ value["presence1"] = Null

\* the change class of each measurement's leaves, as C19 lists them
ListedClass(f) ==
    CASE f \in {"light", "precence"} -> IMMEDIATE
      [] f \in {"temperature", "temperatureTarget", "humidity", "shading",
                "ventilation"} -> LATER

\* C19: an update of a registered identifier whose rounded or coerced
\* candidate differs from the stored value of the leaf (the first update from
\* None to False or to 0 included) stores the candidate, leaves the other
\* leaves alone and returns the change class the leaf was constructed with:
\* IMMEDIATE for the leaves of light and presence, LATER for those of
\* temperature, temperatureTarget, humidity, shading and ventilation.
ChangedUpdateReturnsClass ==
    \A l \in DOMAIN value, v \in EntityValues :
        LET r == update(value, l, v)
        IN  (Candidate(l, v) # value[l])
                => /\ r.vals = [value EXCEPT ![l] = Candidate(l, v)]
                   /\ r.response = ListedClass(LeafField[l])
                   /\ r.response # NO

\* every kind of leaf has been set from None, the switch to False, the blind
\* to 0 and the window contact to True, and the change pending is IMMEDIATE
EveryLeafSet ==
    /\ DOMAIN value = AllLeaves /\ change = IMMEDIATE
    /\ \A l \in AllLeaves : value[l] # Null
    /\ value["active2"] = Bool(FALSE) /\ value["position1"] = Num(0)
    /\ value["openWindow1"] = Bool(TRUE)

\* C20: a value-state record whose UUID is not in the routing table raises no
\* error, classifies as NO, changes neither building.change nor a leaf value;
\* the other records of its batch are applied as without it.
UnknownIdIgnored ==
    \A v \in EntityValues \ {Null} :
        /\ UnknownId \notin DOMAIN value
        /\ update(value, UnknownId, v) = [vals |-> value, response |-> NO]
        /\ UpdateStep(BuildingNow, <<UnknownId, v>>) = BuildingNow
        /\ \A l \in DOMAIN value, w \in EntityValues \ {Null} :
            LET alone == ApplyBatch(BuildingNow, << <<l, w>> >>)
            IN  /\ ApplyBatch(BuildingNow, << <<UnknownId, v>>, <<l, w>> >>) = alone
                /\ ApplyBatch(BuildingNow, << <<l, w>>, <<UnknownId, v>> >>) = alone

\* leaves are set and nothing is pending, so that a record of an unknown UUID
\* classified above NO would show in building.change
UnknownIdOnSetLeaves ==
    /\ DOMAIN value = AllLeaves /\ change = NO /\ lastPersisted >= StartTime
    /\ value["tempActual1"] = Num(5) /\ value["position1"] = Num(10)
    /\ value["presence1"] = Bool(TRUE)
    /\ update(value, UnknownId, Num(3)).response = NO

\* persist_data of p comes to its guards under DATALOCK: at once when the lock
\* is free at the call, or once the lock it waited for is handed to it
PersistDecides(p) ==
    /\ pc = "wait" /\ pc' = "wait" /\ ts'[p] = "running"
    /\ \/ ppc[p] = "lock" /\ ppc'[p] # "lock"
       \/ /\ p = "snapshot" /\ ppc[p] = "idle"
          /\ (ppc'[p] = "connect" \/ swake' # swake)
       \/ /\ p = "ingest" /\ ppc[p] = "idle"
          /\ ipc = "applied" /\ PersistTrigger(change) /\ ppc'[p] # "lock"

\* C21: a persist attempt that finds building.change at NO has no side effect:
\* no store connection and no transaction is opened, DATALOCK is not kept, no
\* row is written, and building.change, building.lastPersisted and the leaf
\* values are as they were.
PersistOnNoIsNoop ==
    [][ \A p \in Persisters :
            (PersistDecides(p) /\ change = NO)
                => /\ ppc'[p] = "idle" /\ lock' = lock
                   /\ UNCHANGED <<change, lastPersisted, value, store, txRows>>
      ]_vars

\* a scheduled tick has found nothing pending on a building that was never
\* persisted: it went back to sleep and the store is empty
TickFoundNothing ==
    /\ pc = "wait" /\ uri # "none" /\ attempts = 1
    /\ change = NO /\ lastPersisted = 0 /\ store = {}
    /\ ppc["snapshot"] = "idle" /\ swake >= StartTime + 2 * MAX_AGGREGATION_SECONDS

\* the room has a leaf that holds a value, False and 0 included
RoomHasValue(room) == \E l \in DOMAIN value : LeafRoom[l] = room /\ value[l] # Null

\* the steps of persist_data of p that execute the INSERTs and that commit
InsertStep(p) == ppc[p] = "tx" /\ ppc'[p] = "commit"
CommitStep(p) == ppc[p] = "commit" /\ ppc'[p] = "close"

\* C22: a persist executes, within one transaction, exactly one INSERT for
\* each room that has a measurement that is not None (a boolean False or a
\* numeric 0 is not None) and none for a room whose eight measurements are
\* all None; all rows carry the snapshot time of the persist.  The store
\* changes only when the transaction commits, and then holds exactly one row
\* of that time for each of those rooms.
PersistRows ==
    [][ /\ \A p \in Persisters :
            /\ InsertStep(p)
                => /\ \A i \in 1..Len(Rooms) :
                        LET rows == {r \in txRows' : r.id = Rooms[i]}
                        IN  IF RoomHasValue(Rooms[i])
                            THEN Cardinality(rows) = 1
                            ELSE rows = {}
                   /\ \A r \in txRows' :
                        /\ r.time = pnow[p] /\ Len(r.values) = 8
                        /\ \E i \in 1..Len(Rooms) : r.id = Rooms[i]
                   /\ store' = store
            /\ CommitStep(p)
                => /\ store' \ store \subseteq txRows
                   /\ \A r \in txRows :
                        Cardinality({s \in store' :
                                        s.time = r.time /\ s.id = r.id}) = 1
        /\ ~(store' \subseteq store) => \E p \in Persisters : CommitStep(p)
      ]_vars

\* a transaction holds its INSERTs: the switch of r2 is False, which makes the
\* one row of the transaction, and r1, with no value yet, has none
FalseMakesRow ==
    /\ \E p \in Persisters : ppc[p] = "commit"
    /\ value["active2"] = Bool(FALSE) /\ value["tempActual1"] = Null
    /\ Cardinality(txRows) = 1 /\ \A r \in txRows : r.id = "r2"

\* the leaves of each class in the building
BoolLeaves == {l \in DOMAIN value : LeafKind[l] = "Bool"}
RoundedLeaves == {l \in DOMAIN value : LeafKind[l] = "Rounded"}
Holding(ls) == {l \in ls : value[l] # Null}

\* C23: for every aggregate kind (Or, And, Mean, Median) and every list of
\* leaves, getValue() is None when the list is empty or all its leaves hold
\* None, and is a value as soon as one leaf holds one; the leaves that hold
\* None take no part in the reduction: Or and And are the any() and all() of
\* the values held, Mean is their sum over their count and Median lies
\* between the least and the greatest of them.
AggregateNullSafe ==
    /\ \A ls \in SUBSET BoolLeaves :
        LET any == OrAggregate(value, ls)
            all == AndAggregate(value, ls)
        IN  /\ (Holding(ls) = {}) <=> (any = Null)
            /\ (Holding(ls) = {}) <=> (all = Null)
            /\ Holding(ls) # {}
                => /\ any = Bool(\E l \in Holding(ls) : value[l] = Bool(TRUE))
                   /\ all = Bool(\A l \in Holding(ls) : value[l] = Bool(TRUE))
            /\ any = OrAggregate(value, Holding(ls))
            /\ all = AndAggregate(value, Holding(ls))
    /\ \A ls \in SUBSET RoundedLeaves :
        LET mean == MeanAggregate(value, ls)
            median == MedianAggregate(value, ls)
        IN  /\ (Holding(ls) = {}) <=> (mean = Null)
            /\ (Holding(ls) = {}) <=> (median = Null)
            /\ Holding(ls) # {}
                => /\ mean.n = Cardinality(Holding(ls))
                   /\ \E l \in Holding(ls) : mean.v <= mean.n * value[l].v
                   /\ \E l \in Holding(ls) : mean.v >= mean.n * value[l].v
                   /\ \E l \in Holding(ls) : median.v <= median.n * value[l].v
                   /\ \E l \in Holding(ls) : median.v >= median.n * value[l].v
            /\ mean = MeanAggregate(value, Holding(ls))
            /\ median = MedianAggregate(value, Holding(ls))

\* leaves of both classes hold values next to leaves that hold None: the
\* three numbers held are 0, 0 and 1.0, the two booleans False and True
MixedLeaves ==
    /\ DOMAIN value = AllLeaves
    /\ value["tempActual1"] = Num(0) /\ value["tempTarget1"] = Num(0)
    /\ value["position1"] = Num(10) /\ value["humidityActual1"] = Null
    /\ value["active2"] = Bool(FALSE) /\ value["presence1"] = Bool(TRUE)
    /\ value["openWindow1"] = Null
    /\ MeanAggregate(value, RoundedLeaves) = [t |-> "mean", v |-> 10, n |-> 3]
    /\ MedianAggregate(value, RoundedLeaves) = [t |-> "median", v |-> 0, n |-> 1]
    /\ OrAggregate(value, BoolLeaves) = Bool(TRUE)
    /\ AndAggregate(value, BoolLeaves) = Bool(FALSE)

\* the header the running call of MessageHeader.parse read last
LastReceived == received[Len(received)]
ParseReturnedHeader == returned.type = "header"
ParseRaised == returned = Raised("AssertionError")

\* C24: MessageHeader.parse rejects every header whose prefix byte is not 0x03
\* or whose reserved byte is not 0x00, whatever its info byte: the call raises
\* on that header, and neither returns it nor reads on past it.
BadFrameRejected ==
    \A i \in 1..Len(received) :
        (received[i].prefix # PREFIX \/ received[i].reserved # RESERVED)
            => i = Len(received) /\ ParseRaised

\* the 0x80 bit of an info byte
EstimationBit(info) == (info \div ESTIMATION_HEADER) % 2

\* C25: MessageHeader.parse never returns an estimation header: a header
\* whose info byte has the 0x80 bit set is skipped by reading the next header
\* from the same socket, and the header returned is a real one.
EstimationNeverReturned ==
    /\ ParseReturnedHeader => EstimationBit(LastReceived.info) = 0
    /\ \A i \in 1..Len(received) :
        (ParseOne(received[i]).kind # "error" /\ EstimationBit(received[i].info) = 1)
            => (i < Len(received) \/ returned = NoReturn \/ returned.type = "ConnectionClosed")

\* process_updates ends on the struct.error parseValueStates raised
BodyRejected ==
    /\ ts["ingest"] = "running" /\ ts'["ingest"] = "failed"
    /\ texc'["ingest"] = Raised("struct.error")

\* C26: a value-state body whose length is not a multiple of 24 bytes makes
\* parseValueStates raise, whatever whole records precede the partial one, and
\* a body of whole records never does (stated of every body the peer may send
\* when process_updates waits for one); when it raises, process_updates ends
\* with none of the records applied: no leaf value changes and
\* building.change is not raised.
PartialBodyRejected ==
    /\ [](ipc = "body"
            => \A msg \in Messages :
                /\ (msg.tail % RECORD_BYTES # 0) <=> ~parseValueStates(msg).ok
                /\ ~parseValueStates(msg).ok => parseValueStates(msg).states = <<>>)
    /\ [][ BodyRejected
            => /\ ipc = "body"
               /\ UNCHANGED <<value, change, lastPersisted, ibatch, store>>
         ]_vars

\* a body with a partial record has ended process_updates on a building that
\* holds values from an earlier body
PartialBodyFailed ==
    /\ pc = "wait" /\ ts["ingest"] = "failed"
    /\ texc["ingest"] = Raised("struct.error")
    /\ value["tempActual1"] # Null /\ value["active2"] = Null /\ change = LATER
    /\ \E msg \in Messages : msg.tail # 0 /\ Len(msg.recs) = MaxBatch

\* a leaf is being constructed with an id that is registered already
DuplicateRegistered ==
    /\ constructed.status = "building"
    /\ constructed'.status = "ValueError"

\* C27: every identifier bound to a leaf is the id of exactly one leaf, which
\* Room.__init__ put in the list of one aggregate, and the routing table binds
\* the identifier to that leaf; registering an identifier that is registered
\* already raises and leaves the table as it was; once the Building is
\* constructed the table is not written again (an update, for a registered or
\* an unregistered id, leaves the set of routed ids as it is).
RoutingFrozen ==
    /\ [](/\ constructed.status \in {"building", "built"}
            => /\ DOMAIN registry =
                    {constructed.leaves[k] : k \in 1..Len(constructed.leaves)}
               /\ \A k \in 1..Len(constructed.leaves) :
                    /\ registry[constructed.leaves[k]] = k
                    /\ Slots[k] \in {Fields[i] : i \in 1..Len(Fields)}
          /\ constructed.status = "built"
            => \A id \in Uuids \cup {UnknownId}, v \in EntityValues :
                DOMAIN update([l \in DOMAIN registry |-> Null], id, v).vals
                    = DOMAIN registry)
    /\ [][ /\ DuplicateRegistered
                => /\ registry' = registry
                   /\ constructed'.leaves = constructed.leaves
                   /\ Len(constructed.leaves) >= 1
           /\ (constructed.status = "building" /\ ~DuplicateRegistered)
                => \A id \in DOMAIN registry :
                    id \in DOMAIN registry' /\ registry'[id] = registry[id]
           /\ (constructed.status = "built" /\ constructed'.status = "built")
                => registry' = registry
         ]_vars

\* the document gave the state of the fourth leaf the id of an earlier leaf:
\* the construction ended in ValueError with three ids registered
DuplicateRaised ==
    /\ constructed.status = "ValueError"
    /\ Len(constructed.leaves) = 3
    /\ DOMAIN registry = {"tempActual1", "tempTarget1", "humidityActual1"}

\* the Building of the running attempt, or NoBuilding
BuildingIs(b) ==
    change = b.change /\ lastPersisted = b.lastPersisted /\ value = b.value

\* C28: each connection attempt builds its entity graph from the structure
\* document it fetched at step 4: the graph starts with building.change at
\* NO, lastPersisted at 0 and every leaf None, and the tasks of the attempt
\* are started on it as it was built; the graph of an attempt is gone when
\* the attempt ends, so that no leaf value, pending change or lastPersisted
\* is carried into the next attempt.
FreshPerAttempt ==
    /\ [](/\ (hs = 5 /\ pc \in {"send", "header", "body"}) => BuildingIs(FreshBuilding)
          /\ (pc \in {"connect", "backoff", "stopped"} \/ hs \in 1..4)
                => BuildingIs(NoBuilding))
    /\ [][ /\ (hs = 4 /\ hs' = 5)
                => /\ change' = NO /\ lastPersisted' = 0
                   /\ \A l \in DOMAIN value' : value'[l] = Null
           /\ (pc = "body" /\ pc' = "wait") => BuildingIs(FreshBuilding)
           /\ (pc = "wait" /\ pc' # "wait")
                => (change' = NoBuilding.change /\ value' = NoBuilding.value
                        /\ lastPersisted' = NoBuilding.lastPersisted)
         ]_vars

\* the second attempt has built its Building: nothing pending, never
\* persisted, every leaf None
SecondAttemptFresh ==
    /\ attempts = 2 /\ hs = 5 /\ pc = "send" /\ sock = "open"
    /\ change = NO /\ lastPersisted = 0
    /\ \A l \in DOMAIN value : value[l] = Null
    /\ now > StartTime

\* the word zlib.crc32 gives for the byte 0x02 five times: 0xC957BB36
ExampleCrc == <<54, 187, 87, 201>>

\* C29: uncompress returns a result only when the magic word is 0xAABBCCEE,
\* the length of the decoded output equals the declared uncompressed length
\* and the CRC-32 of the output equals the declared checksum; when any of the
\* three differs, what it returns is not data.
ResultVerified ==
    /\ uret.type = "result" =>
        /\ uheader = MAGIC
        /\ uret.bytes = result
        /\ Len(uret.bytes) = uncompressedSize
        /\ crc32(uret.bytes) = checksum
    /\ (upc = "done" /\ (\/ uheader # MAGIC
                         \/ Len(result) # uncompressedSize
                         \/ crc32(result) # checksum)) =>
        uret.type \in {"None", "IndexError", "struct.error"}
\* the documented example is decoded and returned: one literal and a match
\* of 4 at offset 1, declared with its length 5 and its checksum
ExampleReturned ==
    /\ upc = "done" /\ data = <<16, 2, 1, 0>>
    /\ uheader = MAGIC /\ uncompressedSize = 5 /\ checksum = ExampleCrc
    /\ uret = [type |-> "result", bytes |-> Example]

\* the sum of the bytes d[from], ..., d[to - 1], counted from 0
RECURSIVE ByteSum(_, _, _)
ByteSum(d, from, to) ==
    IF from >= to THEN 0 ELSE d[from + 1] + ByteSum(d, from + 1, to)
\* the offset of the match being copied lies in the output made so far
OffsetInOutput == 1 <= bytesBack /\ bytesBack <= Len(result)
\* a packet has read its match: n extension bytes end at the input index, the
\* two bytes of the offset stand before them, and the count of bytes to copy
\* is 4 + mat + the extension bytes, mat being the low nibble of the token
MatchRead(n) ==
    /\ byte' = data[index + 1] % 16
    /\ (n = 0) <=> (byte' # 15)
    /\ n > 0 => /\ \A j \in 1..(n - 1) : data[index' - n + j] = MORE
                /\ data[index'] # MORE
    /\ bytesBack' = data[index' - n - 1] + 256 * data[index' - n]
    /\ bytesBackCopied' = 4 + byte' + ByteSum(data, index' - n, index')
\* one pass of the copy loop appends the one byte that stands offset places
\* before the end of the output at that moment, and one byte less is left
OneByteCopied ==
    /\ result' = Append(result, result[Len(result) - bytesBack + 1])
    /\ bytesBackCopied' = bytesBackCopied - 1
    /\ (upc' = "copy") <=> (bytesBackCopied' > 0)
    /\ bytesBack' = bytesBack

\* C30: for a match with 1 <= offset <= current output length the
\* decompressor appends exactly mlen = 4 + mat (+ the extension bytes when
\* mat = 15) bytes, one at a time, each equal to the byte at position
\* output_len - offset at the moment it is appended; with offset 1 every one
\* of them is the last byte of the output.
MatchCopied ==
    /\ [][(upc = "packet" /\ upc' = "copy" /\ OffsetInOutput') =>
            \E n \in 0..Len(data) : MatchRead(n)]_vars
    /\ [][(upc = "copy" /\ OffsetInOutput) =>
            /\ OneByteCopied
            /\ bytesBack = 1 => result' = Append(result, result[Len(result)])]_vars
    /\ [](upc = "copy" => bytesBackCopied > 0)
\* the three cases have been decoded: run-length expansion (one literal, then
\* a match of 4 at offset 1), an extended match (mat = 15 and one extension
\* byte: 4 + 15 + 1 bytes) and an offset of 2 over two different literals
RunLengthCopied ==
    /\ data = <<16, 2, 1, 0>> /\ upc = "verify" /\ result = Example
ExtendedMatchCopied ==
    /\ data = <<31, 2, 1, 0, 1>> /\ upc = "verify"
    /\ result = [i \in 1..21 |-> 2]
OffsetTwoCopied ==
    /\ data = <<32, 1, 2, 2, 0>> /\ upc = "verify"
    /\ result = <<1, 2, 1, 2, 1, 2>>

\* the building of the running attempt has a change that is not persisted
Pending == pc = "wait" /\ change > NO
\* the clock of the model has one more TickSeconds to go: two scheduled ticks
\* can still follow
ClockGoesOn == now <= StartTime + (MaxTicks - 1) * TickSeconds
\* a persist has succeeded and left no change pending
PersistedAll == change = NO /\ lastPersisted >= StartTime
\* persist_data called by scheduled_persist returns without persisting while
\* a change is pending: the task starts its next sleep
SnapshotHeldBack ==
    /\ ppc["snapshot"] \in {"idle", "lock"} /\ ppc'["snapshot"] = "idle"
    /\ swake' # swake
    /\ change # NO /\ change' = change

\* C31: with a store that always succeeds and a connection that stays up,
\* every update that raises building.change above NO is eventually followed
\* by a successful persist that resets change to NO, at the latest at the
\* second scheduled tick after the update: a tick holds a pending change back
\* only inside the aggregation window of the last persist, and the tick after
\* it falls outside that window.
PendingPersisted ==
    /\ (Pending /\ ClockGoesOn) ~> PersistedAll
    /\ [][SnapshotHeldBack =>
            /\ swake < lastPersisted + MAX_AGGREGATION_SECONDS
            /\ swake' >= lastPersisted + MAX_AGGREGATION_SECONDS]_vars
\* a scheduled tick persists a pending change one window after a persist that
\* fell on the tick before it
SecondTickPersists ==
    /\ ppc["snapshot"] = "close" /\ change = LATER
    /\ lastPersisted = StartTime + TickSeconds
    /\ pnow["snapshot"].second = StartTime + 2 * TickSeconds
    /\ swake = StartTime + 2 * TickSeconds

\* C32: every successful persist records the state it snapshots: after it
\* the store holds, for each room with a measurement that is not None, a row
\* at the snapshot time whose values are the room's aggregate values at the
\* moment of the persist, also when two persists fall within the same second;
\* building.change is never NO after a persist while the latest values of a
\* room are absent from the store.  (Rows of seconds before the clock are not
\* kept in store, so the persist looked at is one of the current second.)
PersistRecordsSnapshot ==
    (/\ pc = "wait" /\ uri # "none"
     /\ change = NO /\ lastPersisted = now)
        => RowsOf(value, DateTime(lastPersisted, 0)) \subseteq store

\* C33: in the ingest loop every body message is consumed by the iteration
\* that read its header.  Whenever the loop is about to receive, the message
\* it receives is of the kind it takes it for: a header where it parses a
\* header (a body is never parsed as a header), and the body of the header
\* just read where it parses value states or drops a message.  An iteration
\* that is over has consumed nothing after a KEEPALIVE header or a header of
\* size 0, and exactly one message, the body of its header, after any other.
BodiesConsumed ==
    /\ (lpc = "header" /\ wire # <<>>) => Head(wire).frame = "header"
    /\ (lpc \in {"body", "skip"} /\ wire # <<>>) =>
            /\ Head(wire).frame = "body"
            /\ convert(Head(wire).of) = lheader.identifier
    /\ (lpc = "header" /\ lheader # NoHeader) =>
            IF lheader.identifier = "KEEPALIVE" \/ lheader.size = 0
            THEN lrecv = <<>>
            ELSE /\ Len(lrecv) = 1 /\ lrecv[1].frame = "body"
                 /\ convert(lrecv[1].of) = lheader.identifier

\* the literals of the packet at index i: whether their length could be read,
\* where they start and where they end in data
LiteralsOf(i) ==
    LET token == data[i + 1]
        copy == IF token \div 16 = 15
                THEN ReadLength(data, i + 1)
                ELSE [ok |-> TRUE, sum |-> 0, index |-> i + 1]
    IN  [ok |-> copy.ok, from |-> copy.index,
         end |-> copy.index + token \div 16 + copy.sum]
\* the packet about to be decoded has literals that use up the input
ExhaustingPacket ==
    /\ upc = "packet" /\ LiteralsOf(index).ok
    /\ LiteralsOf(index).end >= Len(data)

\* C34: the packet loop terminates for every compressed body, with a result
\* or with an error.  Every packet is entered with index < len(data) and
\* leaves index strictly greater; every pass of the copy loop lowers
\* bytesBackCopied, which stays at least 0, and leaves index alone; the copy
\* loop is entered with a pass to make, so no position before the return is
\* without a next step; and a packet whose literals use up the input appends
\* them and goes to the checks after the loop without reading an offset or a
\* match length.
PacketLoopTerminates ==
    /\ [](upc \in {"open", "packet", "copy", "verify", "done"})
    /\ [](upc = "packet" => index < Len(data))
    /\ [](upc = "copy" => bytesBackCopied > 0)
    /\ [][upc = "packet" => index' > index]_vars
    /\ [][upc = "copy" =>
            /\ bytesBackCopied' < bytesBackCopied /\ bytesBackCopied' >= 0
            /\ index' = index]_vars
    /\ [][ExhaustingPacket =>
            /\ upc' = "verify" /\ index' = LiteralsOf(index).end
            /\ result' = result \o PySlice(data, LiteralsOf(index).from,
                                           LiteralsOf(index).end)
            /\ UNCHANGED <<bytesBack, bytesBackCopied, uret>>]_vars

\* a packet with a match was decoded and the next packet, a token alone, used
\* up the input: the loop was left for the checks with the match kept
LoopLeftAfterMatch ==
    /\ upc = "verify" /\ data = <<16, 2, 1, 0, 0>>
    /\ index = Len(data) /\ bytesBack = 1 /\ bytesBackCopied = 0
    /\ result = <<2, 2, 2, 2, 2>>

\* the match being copied has an offset outside the output: 0, or more than
\* the bytes decoded so far
OffsetOutsideOutput ==
    upc = "copy" /\ (bytesBack = 0 \/ bytesBack > Len(result))

\* C35: a match whose offset is 0 or greater than the current output length
\* is never decoded into output bytes.  The step taken on such a match ends
\* uncompress with a failure and leaves the output as it is: it neither
\* appends a byte from another position nor goes on with the copy loop.
BadOffsetFails ==
    [][OffsetOutsideOutput =>
            /\ result' = result
            /\ upc' = "done" /\ uret'.type \notin {"none", "result"}]_vars

\* the number of bytes _zero_pad added to the message
PadLength == Len(padded.bytes) - Len(message)

\* C36: the zero-padding returns the message followed by k bytes of 0x00 with
\* k = 16 - (len mod 16), so 1 <= k <= 16 and the padded length is a multiple
\* of 16; a message whose length is a multiple of 16 gains a full block of 16
\* zero bytes, and the message bytes themselves are not altered.
ZeroPadded ==
    padded # NoReturn =>
        /\ PadLength = 16 - (Len(message) % 16)
        /\ PadLength >= 1 /\ PadLength <= 16
        /\ Len(padded.bytes) % 16 = 0
        /\ (Len(message) % 16 = 0 => PadLength = 16)
        /\ SubSeq(padded.bytes, 1, Len(message)) = message
        /\ \A i \in (Len(message) + 1)..Len(padded.bytes) : padded.bytes[i] = 0

\* a message of exactly one block, ending in 0x00, was padded to two blocks
FullBlockAdded ==
    /\ padded # NoReturn /\ Len(message) = 16 /\ message[16] = 0
    /\ Len(padded.bytes) = 32

====
